---- MODULE Spec2Model ----
(***************************************************************************)
(* Health-check engine of dashbrr: the autobrr, maintainerr and generic    *)
(* HTTP checkers (CheckHealth and the lookups it starts), the version      *)
(* lookup of prowlarr, the background version/update tasks with their      *)
(* channels, the shared version cache and the transport helper, over a     *)
(* clock counted in seconds.                                               *)
(*                                                                         *)
(* Time only passes while every task is blocked (on a request or on a      *)
(* select with a timer): computation steps take no time.                   *)
(***************************************************************************)
EXTENDS Integers, Sequences, FiniteSets, TLC

VARIABLES
    now,      \* the clock, in seconds
    cache,    \* the cache store: key -> [val, exp]
    main,     \* the running CheckHealth call: its position and locals
    task,     \* the background goroutines of the call ("ver", "upd")
    chan,     \* versionChan, updateChan, errChan (buffered, capacity 1)
    req,      \* the request each task is blocked on
    result,   \* the HealthResult and status code handed to the caller
    log,      \* what the call has done so far: requests, cache accesses, tasks
    srv,      \* the process that serves the checks: running, shutting down, gone
    db,       \* the store of service configurations and users
    conf      \* the environment, the configuration file and what was loaded

vars == <<now, cache, main, task, chan, req, result, log, srv, db, conf>>

----------------------------------------------------------------------------
(* Durations of the source, in seconds.                                    *)

VersionTimeout == 10
UpdateTimeout == 10
GeneralTimeout == 10
CheckTimeout == 15
StatsTimeout == 15
IrcTimeout == 15
\* a grace period that outlasts the version request
GracePeriodLong == VersionTimeout + 2
GracePeriod == 2
VersionTTL == 7200
UpdateTTL == 7200
IrcTTL == 300
MaintainerrTTL == 3600
ProwlarrTimeout == 2
ProwlarrTTL == 3600
ShutdownTimeout == 10
\* make(chan string, 1): the buffer of versionChan, updateChan and errChan
ChanCap == 1
\* context.Background(): a context that never expires
NoDeadline == -1
Never == NoDeadline

(* Bounds of the model.                                                    *)
\* the number of rows a table of the store is given in all
MaxInserts == 3
\* the number of CheckHealth calls made one after the other
MaxChecks == 2
\* the delay, in seconds, of an upstream that answers slowly
SlowDelay == 3

Delays == {0, SlowDelay}

----------------------------------------------------------------------------
(* Bodies.  A body is text (a sequence of tokens: "sp" is a whitespace     *)
(* character, "q" a double quote, any other token a run of letters), a     *)
(* JSON object, a JSON array of objects, or a body whose read fails.       *)

ZeroObj ==
    [has |-> {}, version |-> "", updateAvailable |-> FALSE, status |-> "",
     message |-> "", name |-> "", healthy |-> FALSE, enabled |-> FALSE]

Body(k, toks, items) == [k |-> k, toks |-> toks, items |-> items]
TextBody(toks) == Body("text", toks, <<>>)
ObjBody(o) == Body("obj", <<>>, <<o>>)
ArrBody(items) == Body("arr", <<>>, items)
Unreadable == Body("unreadable", <<>>, <<>>)

VersionObj(v) == [ZeroObj EXCEPT !.has = {"version"}, !.version = v]
StatusObj(v, u) ==
    [ZeroObj EXCEPT !.has = {"version", "updateAvailable"}, !.version = v,
                    !.updateAvailable = u]
IrcObj(n, h, e) ==
    [ZeroObj EXCEPT !.has = {"name", "healthy", "enabled"}, !.name = n,
                    !.healthy = h, !.enabled = e]
HealthObj(s, m) ==
    [ZeroObj EXCEPT !.has = {"status", "message"}, !.status = s, !.message = m]

\* string(body): the text of a body
BodyText(b) == IF b.k = "text" THEN b.toks ELSE <<"json">>

RECURSIVE TrimLeft(_, _)
TrimLeft(s, c) ==
    IF s # <<>> /\ Head(s) = c THEN TrimLeft(Tail(s), c) ELSE s

RECURSIVE TrimRightTok(_, _)
TrimRightTok(s, c) ==
    IF s # <<>> /\ s[Len(s)] = c THEN TrimRightTok(SubSeq(s, 1, Len(s) - 1), c)
    ELSE s

\* strings.Trim(s, c)
Trim(s, c) == TrimRightTok(TrimLeft(s, c), c)
\* strings.TrimSpace(s)
TrimSpace(s) == Trim(s, "sp")

\* time.ParseDuration(header + "ms") followed by Milliseconds(): a missing
\* or malformed header gives the zero duration
HeaderMs(h) ==
    CASE h = "12" -> 12
      [] h = "-5" -> 0 - 5
      [] h = "1.5" -> 1
      [] OTHER -> 0

----------------------------------------------------------------------------
(* The upstream.  Each request meets one behaviour of the upstream: the    *)
(* connection fails, the upstream accepts and never answers, or it answers *)
(* after a delay.                                                          *)

Resp(d, c, b, h) == [kind |-> "resp", delay |-> d, code |-> c, body |-> b, hdr |-> h]
ConnFail == [kind |-> "connfail", delay |-> 0, code |-> 0, body |-> Unreadable, hdr |-> ""]
Hang == [kind |-> "hang", delay |-> 0, code |-> 0, body |-> Unreadable, hdr |-> ""]

Urls == {<<>>, <<"u">>}
\* instance IDs, display names and users given to the store
InstanceIDs == {"test-service-1", "duplicate-service"}
DisplayNames == {"Test Service", "Updated Test Service"}
Users ==
    {[username |-> "testuser", email |-> "test@example.com"],
     [username |-> "duplicate", email |-> "duplicate@example.com"]}
\* the URLs of two instances checked one after the other: the second URL is
\* the first with _irc at its end
FleetUrls == {<<"u">>, <<"u", "_irc">>}
ApiKeys == {"", "k"}

Garbage == TextBody(<<"oops">>)

StatsOutcomes ==
    {ConnFail, Hang, Resp(0, 200, Garbage, ""), Resp(0, 200, ObjBody(ZeroObj), "")}

LivenessOutcomes ==
    {ConnFail, Hang,
     Resp(0, 200, TextBody(<<"q", "OK", "q">>), "12"),
     Resp(0, 200, TextBody(<<"sp", "healthy", "sp">>), "-5"),
     Resp(0, 200, TextBody(<<"unhealthy">>), ""),
     Resp(0, 200, TextBody(<<"ok">>), ""),
     Resp(0, 200, TextBody(<<"q", "sp", "healthy", "q">>), ""),
     Resp(0, 200, Unreadable, "")}
    \cup {Resp(d, 200, TextBody(<<"healthy">>), "") : d \in Delays}
    \cup {Resp(0, 200, TextBody(<<"healthy">>), h) : h \in {"1.5", "abc"}}
    \cup {Resp(0, c, TextBody(<<"healthy">>), "") : c \in {204, 500}}
    \cup {Resp(0, 404, Garbage, "")}

VersionOutcomes ==
    {ConnFail, Hang, Resp(0, 500, Garbage, ""), Resp(0, 200, Garbage, "")}
    \cup {Resp(d, 200, ObjBody(VersionObj("v1")), "") : d \in Delays}
    \cup {Resp(0, 200, ObjBody(ZeroObj), "")}

UpdateOutcomes ==
    {ConnFail, Hang, Resp(0, 500, Garbage, ""), Resp(0, 204, TextBody(<<>>), "")}
    \cup {Resp(d, 200, Garbage, "") : d \in Delays}

IrcGood == IrcObj("good", TRUE, TRUE)
IrcBad == IrcObj("bad", FALSE, TRUE)

IrcOutcomes ==
    {ConnFail, Hang, Resp(0, 500, Garbage, ""), Resp(0, 200, Garbage, ""),
     Resp(0, 200, ArrBody(<<IrcGood, IrcBad>>), ""),
     Resp(0, 200, ArrBody(<<IrcGood, IrcObj("off", FALSE, FALSE)>>), ""),
     Resp(0, 200, ObjBody(IrcBad), ""),
     Resp(0, 200, ObjBody(IrcGood), ""),
     Resp(SlowDelay, 200, ArrBody(<<>>), "")}

\* what the upstream can do with a request that carries apiKey in its
\* X-Api-Token header: it was set up with key k and does not know key x,
\* which it never answers below 400
Upstream(apiKey, outs) ==
    IF apiKey = "x"
    THEN {o \in outs : o.kind = "resp" => o.code >= 400}
    ELSE outs

----------------------------------------------------------------------------
(* Transport helper.                                                       *)

NoRes == [err |-> "none", code |-> 0, body |-> Unreadable, hdr |-> ""]
ErrRes(e) == [err |-> e, code |-> 0, body |-> Unreadable, hdr |-> ""]
OkRes(o) == [err |-> "", code |-> o.code, body |-> o.body, hdr |-> o.hdr]

NoReq ==
    [ep |-> "none", at |-> 0, deadline |-> NoDeadline, due |-> Never,
     res |-> NoRes, out |-> Hang]

\* a request issued now that completes at time due with res
Pending(ep, deadline, due, res, o) ==
    [ep |-> ep, at |-> now, deadline |-> deadline, due |-> due, res |-> res, out |-> o]

\* The request of a caller under a context with the given deadline, met by
\* upstream behaviour o: when it completes and what the caller then gets.
MakeRequestWithContext(ep, deadline, o) ==
    LET bounded == deadline # NoDeadline
        arrive  == now + o.delay
    IN  IF bounded /\ now >= deadline
        THEN Pending(ep, deadline, now, ErrRes("ctx"), o)
        ELSE IF o.kind = "connfail"
        THEN Pending(ep, deadline, now, ErrRes("conn"), o)
        ELSE IF o.kind = "hang" \/ (bounded /\ arrive >= deadline)
        THEN Pending(ep, deadline, IF bounded THEN deadline ELSE Never,
                     ErrRes("timeout"), o)
        ELSE Pending(ep, deadline, arrive, OkRes(o), o)

\* the request of task p has completed
Ready(p) == req[p].ep # "none" /\ req[p].due # Never /\ req[p].due <= now

\* ReadBody(resp) fails
ReadFails(res) == res.body.k = "unreadable"

----------------------------------------------------------------------------
(* Cache store, keyed by strings: a key is the URL with a suffix appended. *)

CacheStr(s) == [k |-> "str", s |-> s, items |-> <<>>]
CacheJson(items) == [k |-> "arr", s |-> "", items |-> items]
CacheNull == [k |-> "null", s |-> "", items |-> <<>>]
EmptyVal == CacheStr("")

VersionKey(url) == url
IrcKey(url) == Append(url, "_irc")
UpdateKey(url) == Append(url, "_update")

Keys ==
    UNION {{VersionKey(u), IrcKey(u), UpdateKey(u)} :
               u \in (Urls \cup FleetUrls) \ {<<>>}}

\* the string a cached value is: a string as it was written, a marshalled
\* list as its JSON text
CacheText(val) ==
    CASE val.k = "str" -> val.s
      [] val.k = "null" -> "null"
      [] OTHER -> "[irc]"

\* a read that hands out whatever the store holds, expired or not
GetVersionFromCacheStale(key) ==
    IF key \in Keys THEN cache[key].val ELSE EmptyVal

\* GetVersionFromCache(key): absent entries and expired ones read as ""
GetVersionFromCache(key) ==
    IF key \in Keys /\ cache[key].exp > now THEN cache[key].val ELSE EmptyVal

\* CacheVersion(key, val, ttl), when the store accepts the write
CacheVersion(c, key, val, ttl) ==
    [c EXCEPT ![key] = [val |-> val, exp |-> now + ttl]]

\* the outcomes of a cache write: TRUE when the store accepts it
CacheWriteOutcomes == {TRUE, FALSE}

\* a lookup whose cache write was refused reports a failure
AfterCacheWriteStrict(got, ok) ==
    IF ok THEN got
    ELSE [f \in DOMAIN got |-> IF f = "failed" THEN TRUE ELSE got[f]]

\* what a lookup returns once it has tried to cache what it got: a refused
\* write is printed and the lookup returns as if the write had gone through
AfterCacheWrite(got, ok) == got

----------------------------------------------------------------------------
(* Health response model.                                                  *)

Msg(text, err, code, body) == [text |-> text, err |-> err, code |-> code, body |-> body]
Text(text) == Msg(text, "", 0, <<>>)

NoExtras ==
    [has |-> {}, version |-> "", responseTime |-> 0, updateAvailable |-> FALSE,
     stats |-> "", irc |-> <<>>, versionError |-> ""]

\* a response whose HTTP status follows the health status
CreateHealthResponseByStatus(status, msg, extras, http) ==
    [status |-> status, msg |-> msg, extras |-> extras,
     http |-> CASE status = "offline" -> 503
                [] status = "error" -> 500
                [] OTHER -> 200,
     at |-> now]

\* CreateHealthResponse(startTime, status, message, extras...) with the HTTP
\* status returned beside it; at is the time of the return
CreateHealthResponse(status, msg, extras, http) ==
    [status |-> status, msg |-> msg, extras |-> extras, http |-> http, at |-> now]

NoResult ==
    [status |-> "none", msg |-> Text(""), extras |-> NoExtras, http |-> 0, at |-> 0]

----------------------------------------------------------------------------
(* The state of a call.                                                    *)

Tasks == {"ver", "upd"}
Procs == {"main"} \cup Tasks

IdleMain ==
    [pc |-> "idle", variant |-> "none", url |-> <<>>, key |-> "",
     ctx |-> NoDeadline, stats |-> "", version |-> "", hasUpdate |-> FALSE,
     versionErr |-> "", bodyUpdate |-> FALSE, respTime |-> 0, waitStart |-> 0,
     probe |-> NoRes, probeOut |-> Hang, ircErr |-> "", ircRes |-> NoRes,
     ircFrom |-> "none", verFrom |-> "none", verWait |-> "none",
     updWait |-> "none"]

\* a goroutine: its position, whether its lookup failed, whether the cache
\* answered it
OffTask == [pc |-> "off", failed |-> FALSE, hit |-> FALSE]

\* the cached signals
Signals == {"version", "update", "irc"}

\* the record of the write the store last accepted for a key: the value and
\* TTL it was given, the call that made it, the time spent between calls
\* since then, the URL of the instance that was checked, the signal and the
\* API key of the call, and for an IRC status the list the lookup returned
\* and the status of the check that made it
NoWrite ==
    [val |-> EmptyVal, ttl |-> 0, call |-> 0, idle |-> 0, by |-> <<>>,
     sig |-> "none", key |-> "", ret |-> <<>>, status |-> "none"]

NoLog ==
    [net |-> 0, creads |-> 0, cwrites |-> 0, spawned |-> 0, late |-> 0,
     checks |-> 0, gap |-> 0, asked |-> {}, wfail |-> {},
     wr |-> [k \in Keys |-> NoWrite]]

Issued(l) == [l EXCEPT !.net = @ + 1]
\* a request made to fetch a cached signal
IssuedFor(l, s) == [Issued(l) EXCEPT !.asked = @ \cup {s}]
CacheRead(l) == [l EXCEPT !.creads = @ + 1]
\* a cache write; one made after the call returned counts as late
CacheWritten(l) ==
    [l EXCEPT !.cwrites = @ + 1,
              !.late = IF main.pc = "done" THEN @ + 1 ELSE @]
\* a cache write of signal s, accepted by the store (ok) or not
CacheWrittenFor(l, s, key, val, ttl, ok) ==
    [CacheWritten(l) EXCEPT
        !.wfail = IF ok THEN @ ELSE @ \cup {s},
        !.wr = IF ok
               THEN [@ EXCEPT ![key] = [val |-> val, ttl |-> ttl,
                                        call |-> l.checks, idle |-> 0,
                                        by |-> main.url, sig |-> s,
                                        key |-> main.key, ret |-> <<>>,
                                        status |-> "none"]]
               ELSE @]

\* what the last call of the store returned: the operation, its key, whether
\* it gave an error, and the records it handed out
Returned(op, arg, err, rows) == [op |-> op, arg |-> arg, err |-> err, rows |-> rows]

\* the store after InitDB: two empty tables whose row IDs count from 1.
\* live, last and idOf keep what the callers did: the instance IDs created
\* and not deleted, the display name last written and the ID given at
\* creation.
EmptyDB ==
    [services |-> {}, users |-> {}, nextService |-> 1, nextUser |-> 1,
     ret |-> Returned("none", "", FALSE, {}),
     live |-> {}, last |-> [i \in InstanceIDs |-> ""],
     idOf |-> [i \in InstanceIDs |-> 0]]

(* Configuration: the environment, the TOML file, HasRequiredEnvVars,      *)
(* LoadEnvOverrides and LoadConfig.                                        *)

\* the environments: each variable is unset (or empty), or has one of a few
\* values; a port can be a number, zero, or not a number
Envs ==
    [DASHBRR__LISTEN_ADDR : {"", ":8080"},
     CACHE_TYPE : {"", "redis"},
     REDIS_HOST : {""},
     REDIS_PORT : {"", "6379", "abc"},
     DASHBRR__DB_TYPE : {"", "sqlite", "postgres", "mysql"},
     DASHBRR__DB_PATH : {"", "env.db"},
     DASHBRR__DB_HOST : {"", "pg"},
     DASHBRR__DB_PORT : {"", "5432", "0", "abc"},
     DASHBRR__DB_USER : {"", "dashbrr"},
     DASHBRR__DB_PASSWORD : {"", "secret"},
     DASHBRR__DB_NAME : {"", "dashbrr"},
     OIDC_ISSUER : {"", "https://env"},
     OIDC_CLIENT_ID : {""},
     OIDC_CLIENT_SECRET : {""},
     OIDC_REDIRECT_URL : {""}]

\* Config{}: the zero configuration
ZeroConfig ==
    [Server |-> [ListenAddr |-> ""],
     Cache |-> [Type |-> "", Redis |-> [Host |-> "", Port |-> 0]],
     Database |-> [Type |-> "", Path |-> "", Host |-> "", Port |-> 0,
                   User |-> "", Password |-> "", Name |-> ""],
     Auth |-> [OIDC |-> [Issuer |-> "", ClientID |-> "", ClientSecret |-> "",
                         RedirectURL |-> ""]]]

\* the configuration written in a file that sets every field
FileConfig ==
    [Server |-> [ListenAddr |-> ":9000"],
     Cache |-> [Type |-> "memory", Redis |-> [Host |-> "file-redis", Port |-> 6380]],
     Database |-> [Type |-> "sqlite", Path |-> "file.db", Host |-> "file-pg",
                   Port |-> 5433, User |-> "file-user", Password |-> "file-pw",
                   Name |-> "file-name"],
     Auth |-> [OIDC |-> [Issuer |-> "https://file", ClientID |-> "file-id",
                         ClientSecret |-> "file-secret",
                         RedirectURL |-> "https://file/cb"]]]

\* strconv.Atoi
Atoi(str) ==
    CASE str = "5432" -> [ok |-> TRUE, n |-> 5432]
      [] str = "6379" -> [ok |-> TRUE, n |-> 6379]
      [] str = "0" -> [ok |-> TRUE, n |-> 0]
      [] OTHER -> [ok |-> FALSE, n |-> 0]

\* what LoadConfig returns: the configuration or nil, and the error; read
\* tells whether os.ReadFile was called
ConfigReturn(config, isNil, err, read) ==
    [config |-> config, nil |-> isNil, err |-> err, read |-> read]

\* before LoadConfig is called, in an environment and with a file
Unloaded(env, file) ==
    [pc |-> "start", env |-> env, file |-> file, required |-> FALSE,
     out |-> ConfigReturn(ZeroConfig, TRUE, "", FALSE)]

\* a check that does not ask for the port of postgres
HasRequiredEnvVarsNoPort(env) ==
    /\ env.DASHBRR__LISTEN_ADDR # ""
    /\ \/ env.DASHBRR__DB_TYPE = "sqlite" /\ env.DASHBRR__DB_PATH # ""
       \/ /\ env.DASHBRR__DB_TYPE = "postgres"
          /\ \A v \in {"DASHBRR__DB_HOST", "DASHBRR__DB_USER",
                        "DASHBRR__DB_PASSWORD", "DASHBRR__DB_NAME"} : env[v] # ""

\* HasRequiredEnvVars, with os.Getenv reading env
HasRequiredEnvVars(env) ==
    IF env.DASHBRR__LISTEN_ADDR = "" THEN FALSE
    ELSE IF env.DASHBRR__DB_TYPE = "" THEN FALSE
    ELSE CASE env.DASHBRR__DB_TYPE = "sqlite" -> env.DASHBRR__DB_PATH # ""
           [] env.DASHBRR__DB_TYPE = "postgres" ->
                  \A v \in {"DASHBRR__DB_HOST", "DASHBRR__DB_PORT", "DASHBRR__DB_USER",
                            "DASHBRR__DB_PASSWORD", "DASHBRR__DB_NAME"} : env[v] # ""
           [] OTHER -> FALSE

\* the value of a text field after its override
Override(old, e) == IF e # "" THEN e ELSE old
\* the value of a port after its override: a value that is not a number is
\* passed over
OverridePort(old, e) == IF e # "" /\ Atoi(e).ok THEN Atoi(e).n ELSE old

\* LoadEnvOverrides(config), which always returns nil
LoadEnvOverrides(config, env) ==
    [Server |-> [ListenAddr |-> Override(config.Server.ListenAddr, env.DASHBRR__LISTEN_ADDR)],
     Cache |->
        [Type |-> Override(config.Cache.Type, env.CACHE_TYPE),
         Redis |-> [Host |-> Override(config.Cache.Redis.Host, env.REDIS_HOST),
                    Port |-> OverridePort(config.Cache.Redis.Port, env.REDIS_PORT)]],
     Database |->
        [Type |-> Override(config.Database.Type, env.DASHBRR__DB_TYPE),
         Path |-> Override(config.Database.Path, env.DASHBRR__DB_PATH),
         Host |-> Override(config.Database.Host, env.DASHBRR__DB_HOST),
         Port |-> OverridePort(config.Database.Port, env.DASHBRR__DB_PORT),
         User |-> Override(config.Database.User, env.DASHBRR__DB_USER),
         Password |-> Override(config.Database.Password, env.DASHBRR__DB_PASSWORD),
         Name |-> Override(config.Database.Name, env.DASHBRR__DB_NAME)],
     Auth |->
        [OIDC |->
            [Issuer |-> Override(config.Auth.OIDC.Issuer, env.OIDC_ISSUER),
             ClientID |-> Override(config.Auth.OIDC.ClientID, env.OIDC_CLIENT_ID),
             ClientSecret |-> Override(config.Auth.OIDC.ClientSecret,
                                       env.OIDC_CLIENT_SECRET),
             RedirectURL |-> Override(config.Auth.OIDC.RedirectURL,
                                      env.OIDC_REDIRECT_URL)]]]

\* LoadConfig(path) in the environment, with the file found at the path:
\* not there, not TOML, or a file that sets every field
LoadConfig ==
    /\ conf.pc = "start"
    /\ conf' = [conf EXCEPT
           !.pc = "loaded",
           !.required = HasRequiredEnvVars(conf.env),
           !.out =
               IF HasRequiredEnvVars(conf.env)
               THEN ConfigReturn(LoadEnvOverrides(ZeroConfig, conf.env), FALSE, "", FALSE)
               ELSE IF conf.file = "missing"
               THEN ConfigReturn(ZeroConfig, TRUE, "error reading config file", TRUE)
               ELSE IF conf.file = "malformed"
               THEN ConfigReturn(ZeroConfig, TRUE, "error decoding config file", TRUE)
               ELSE ConfigReturn(LoadEnvOverrides(FileConfig, conf.env), FALSE, "", TRUE)]
    /\ UNCHANGED <<now, cache, main, task, chan, req, result, log, srv, db>>

----------------------------------------------------------------------------
(* The process.                                                            *)

\* the process once startServer has set up the routes and the cache
\* store: whether a signal asked it to stop, the deadline of srv.Shutdown,
\* the calls of cacheStore.Close and of db.Close, whether Close failed, the
\* exit code, and what was still running when the process went away
Serving ==
    [pc |-> "serving", quit |-> FALSE, deadline |-> Never, closed |-> 0,
     closeErr |-> FALSE, dbClosed |-> 0, exit |-> 0 - 1, cut |-> {}]

\* the listeners are open: requests are accepted
Accepting == srv.pc = "serving"
\* the process exists: its goroutines run
Alive == srv.pc # "exited"

Init ==
    /\ conf = Unloaded(CHOOSE e \in Envs : \A n \in DOMAIN e : e[n] = "", "missing")
    /\ srv = Serving
    /\ db = EmptyDB
    /\ now = 0
    /\ cache = [k \in Keys |-> [val |-> EmptyVal, exp |-> 0]]
    /\ main = IdleMain
    /\ task = [t \in Tasks |-> OffTask]
    /\ chan = [version |-> <<>>, update |-> <<>>, err |-> <<>>]
    /\ req = [p \in Procs |-> NoReq]
    /\ result = NoResult
    /\ log = NoLog

----------------------------------------------------------------------------
(* autobrr: GetVersion and CheckUpdate, run by the two goroutines that     *)
(* CheckHealth starts.                                                     *)

\* the goroutine writes its version into the result of the call as well
AutobrrVersionSendShared(v) ==
    /\ chan' = [chan EXCEPT !.version = Append(@, v)]
    /\ main' = main
    /\ result' = IF result.status # "none"
                 THEN [result EXCEPT !.extras.version = v]
                 ELSE result

\* the goroutine hands its version over: a send on versionChan, and nothing
\* of the call's own state is touched
AutobrrVersionSend(v) ==
    /\ chan' = [chan EXCEPT !.version = Append(@, v)]
    /\ UNCHANGED <<main, result>>

\* GetVersion up to its request: a cached version is sent at once
AutobrrVersionStart ==
    /\ Alive
    /\ main.variant = "autobrr"
    /\ task.ver.pc = "start"
    /\ LET cached == GetVersionFromCache(VersionKey(main.url))
       IN  IF cached # EmptyVal
           THEN /\ task' = [task EXCEPT !.ver = [@ EXCEPT !.pc = "done", !.hit = TRUE]]
                /\ AutobrrVersionSend(CacheText(cached))
                /\ log' = CacheRead(log)
                /\ UNCHANGED req
           ELSE /\ \E o \in Upstream(main.key, VersionOutcomes) :
                     req' = [req EXCEPT !.ver =
                         MakeRequestWithContext("version", now + VersionTimeout, o)]
                /\ task' = [task EXCEPT !.ver = [@ EXCEPT !.pc = "req"]]
                /\ log' = IssuedFor(CacheRead(log), "version")
                /\ UNCHANGED <<chan, main, result>>
    /\ UNCHANGED <<conf, db, srv, now, cache>>

\* the version GetVersion returns for a response, "" with an error
AutobrrVersionOf(res) ==
    IF res.err # "" \/ res.code # 200 \/ ReadFails(res) \/ res.body.k # "obj"
    THEN [failed |-> TRUE, version |-> ""]
    ELSE [failed |-> FALSE, version |-> res.body.items[1].version]

\* GetVersion from its response on, and the send on versionChan
AutobrrVersionDone ==
    /\ Alive
    /\ main.variant = "autobrr"
    /\ task.ver.pc = "req"
    /\ Ready("ver")
    /\ LET res == req.ver.res
           got == AutobrrVersionOf(res)
       IN  IF got.failed
           THEN /\ task' = [task EXCEPT !.ver = [@ EXCEPT !.pc = "done", !.failed = TRUE]]
                /\ AutobrrVersionSend(got.version)
                /\ UNCHANGED <<cache, log>>
           ELSE \E ok \in CacheWriteOutcomes :
                       /\ task' = [task EXCEPT !.ver =
                              [@ EXCEPT !.pc = "done",
                                        !.failed = AfterCacheWrite(got, ok).failed]]
                       /\ AutobrrVersionSend(AfterCacheWrite(got, ok).version)
                       /\ cache' = IF ok THEN CacheVersion(cache, VersionKey(main.url),
                                                  CacheStr(got.version), VersionTTL)
                                   ELSE cache
                       /\ log' = CacheWrittenFor(log, "version", VersionKey(main.url),
                                                  CacheStr(got.version), VersionTTL, ok)
    /\ req' = [req EXCEPT !.ver = NoReq]
    /\ UNCHANGED <<conf, db, srv, now>>

\* CheckUpdate up to its request
AutobrrUpdateStart ==
    /\ Alive
    /\ main.variant = "autobrr"
    /\ task.upd.pc = "start"
    /\ LET cached == GetVersionFromCache(UpdateKey(main.url))
       IN  IF cached # EmptyVal
           THEN /\ task' = [task EXCEPT !.upd = [@ EXCEPT !.pc = "done", !.hit = TRUE]]
                /\ chan' = [chan EXCEPT !.update = Append(@, cached = CacheStr("true"))]
                /\ log' = CacheRead(log)
                /\ UNCHANGED req
           ELSE /\ \E o \in Upstream(main.key, UpdateOutcomes) :
                     req' = [req EXCEPT !.upd =
                         MakeRequestWithContext("update", now + UpdateTimeout, o)]
                /\ task' = [task EXCEPT !.upd = [@ EXCEPT !.pc = "req"]]
                /\ log' = IssuedFor(CacheRead(log), "update")
                /\ UNCHANGED chan
    /\ UNCHANGED <<conf, db, srv, now, cache, main, result>>

\* what CheckUpdate returns for a response: 200 means an update
AutobrrUpdateOf(res) ==
    IF res.err # ""
    THEN [failed |-> TRUE, hasUpdate |-> FALSE]
    ELSE [failed |-> FALSE, hasUpdate |-> (res.code = 200)]

\* CheckUpdate from its response on, and the send on updateChan
AutobrrUpdateDone ==
    /\ Alive
    /\ main.variant = "autobrr"
    /\ task.upd.pc = "req"
    /\ Ready("upd")
    /\ LET res == req.upd.res
           got == AutobrrUpdateOf(res)
       IN  IF got.failed
           THEN /\ task' = [task EXCEPT !.upd = [@ EXCEPT !.pc = "done", !.failed = TRUE]]
                /\ chan' = [chan EXCEPT !.update = Append(@, got.hasUpdate)]
                /\ UNCHANGED <<cache, log>>
           ELSE \E ok \in CacheWriteOutcomes :
                       /\ task' = [task EXCEPT !.upd =
                              [@ EXCEPT !.pc = "done",
                                        !.failed = AfterCacheWrite(got, ok).failed]]
                       /\ chan' = [chan EXCEPT !.update =
                              Append(@, AfterCacheWrite(got, ok).hasUpdate)]
                       /\ cache' = IF ok THEN CacheVersion(cache, UpdateKey(main.url),
                                          CacheStr(IF got.hasUpdate THEN "true" ELSE "false"),
                                          UpdateTTL)
                                   ELSE cache
                       /\ log' = CacheWrittenFor(log, "update", UpdateKey(main.url),
                                          CacheStr(IF got.hasUpdate THEN "true" ELSE "false"),
                                          UpdateTTL, ok)
    /\ req' = [req EXCEPT !.upd = NoReq]
    /\ UNCHANGED <<conf, db, srv, now, main, result>>

----------------------------------------------------------------------------
(* autobrr: GetIRCStatus.                                                  *)

IrcStatus(o) == [name |-> o.name, healthy |-> o.healthy, enabled |-> o.enabled]
IrcList(items) == [i \in 1..Len(items) |-> IrcStatus(items[i])]
\* json.Marshal of a list of IRCStatus: a nil slice marshals to null
IrcMarshal(list) ==
    IF list = <<>> THEN CacheNull
    ELSE CacheJson([i \in 1..Len(list) |->
                        IrcObj(list[i].name, list[i].healthy, list[i].enabled)])

IrcPlaceholder == <<[name |-> "IRC", healthy |-> FALSE, enabled |-> FALSE]>>

\* the entries that are not healthy, enabled or not
UnhealthyOrDisabled(list) == SelectSeq(list, LAMBDA e : ~e.healthy)

RECURSIVE Unhealthy(_)
\* the entries that are enabled and not healthy, in order
Unhealthy(list) ==
    IF list = <<>> THEN <<>>
    ELSE IF ~Head(list).healthy /\ Head(list).enabled
         THEN <<Head(list)>> \o Unhealthy(Tail(list))
         ELSE Unhealthy(Tail(list))

\* the cached IRC status, when it decodes as a list
IrcCached(url) ==
    LET cached == GetVersionFromCache(IrcKey(url))
    IN  [hit |-> cached # EmptyVal /\ cached.k \in {"arr", "null"},
         list |-> IrcList(cached.items)]

\* a lookup that caches every entry of the array it was sent
IrcOfCacheAll(res) ==
    IF res.err = "" /\ res.code = 200 /\ ~ReadFails(res) /\ res.body.k = "arr"
    THEN LET all == IrcList(res.body.items)
         IN  [list |-> Unhealthy(all), err |-> "", put |-> TRUE, failed |-> FALSE,
              val |-> IrcMarshal(all)]
    ELSE [list |-> IrcPlaceholder, err |-> "request failed", put |-> FALSE,
          failed |-> TRUE, val |-> CacheNull]

\* GetIRCStatus on a response: the list, the error, and what is cached
\* (put: whether a cache write is attempted)
IrcOf(res) ==
    IF res.err # ""
    THEN [list |-> IrcPlaceholder, err |-> "request failed", put |-> FALSE, failed |-> TRUE, val |-> CacheNull]
    ELSE IF res.code # 200
    THEN [list |-> IrcPlaceholder, err |-> "unexpected status code", put |-> FALSE, failed |-> TRUE, val |-> CacheNull]
    ELSE IF ReadFails(res)
    THEN [list |-> IrcPlaceholder, err |-> "failed to read response body", put |-> FALSE, failed |-> TRUE, val |-> CacheNull]
    ELSE IF res.body.k = "arr"
    THEN LET bad == Unhealthy(IrcList(res.body.items))
         IN  [list |-> bad, err |-> "", put |-> TRUE, failed |-> FALSE, val |-> IrcMarshal(bad)]
    ELSE IF res.body.k = "obj"
    THEN LET single == IrcStatus(res.body.items[1])
         IN  IF ~single.healthy /\ single.enabled
             THEN [list |-> <<single>>, err |-> "", put |-> TRUE, failed |-> FALSE,
                   val |-> IrcMarshal(<<single>>)]
             ELSE [list |-> <<>>, err |-> "", put |-> TRUE, failed |-> FALSE,
                   val |-> CacheJson(<<>>)]
    ELSE [list |-> IrcPlaceholder, err |-> "failed to decode response", put |-> FALSE, failed |-> TRUE, val |-> CacheNull]

----------------------------------------------------------------------------
(* autobrr: CheckHealth.                                                   *)

AutobrrExtras(m, withDetails, irc) ==
    [has |-> {"version", "responseTime", "updateAvailable", "stats"}
                 \cup (IF withDetails THEN {"details"} ELSE {}),
     version |-> m.version, responseTime |-> m.respTime,
     updateAvailable |-> m.hasUpdate, stats |-> m.stats,
     irc |-> IF withDetails THEN irc ELSE <<>>, versionError |-> ""]

\* a result that leaves unhealthy IRC connections out of the status
AutobrrAssembleIgnoreIrc(m, irc, ircErr) ==
    IF ircErr # ""
    THEN CreateHealthResponse("warning",
             Msg("Autobrr is running but IRC status check failed", ircErr, 0, <<>>),
             AutobrrExtras(m, TRUE, irc), 200)
    ELSE CreateHealthResponse("online", Text("Autobrr is running"),
             AutobrrExtras(m, FALSE, irc), 200)

\* the result CheckHealth builds once GetIRCStatus has returned
AutobrrAssemble(m, irc, ircErr) ==
    IF ircErr # ""
    THEN CreateHealthResponse("warning",
             Msg("Autobrr is running but IRC status check failed", ircErr, 0, <<>>),
             AutobrrExtras(m, TRUE, irc), 200)
    ELSE LET ircHealthy == irc = <<>> \/ \E i \in 1..Len(irc) : irc[i].healthy
         IN  IF ~ircHealthy
             THEN CreateHealthResponse("warning",
                      Text("Autobrr is running but reports unhealthy IRC connections"),
                      AutobrrExtras(m, TRUE, irc), 200)
             ELSE CreateHealthResponse("online", Text("Autobrr is running"),
                      AutobrrExtras(m, FALSE, irc), 200)

\* a trimmed body compared without regard to case
AutobrrTrimmedFold(body) ==
    LET t == Trim(TrimSpace(BodyText(body)), "q")
    IN  IF t = <<"ok">> THEN <<"OK">> ELSE t

\* the liveness body after TrimSpace and Trim of double quotes
AutobrrTrimmed(body) == Trim(TrimSpace(BodyText(body)), "q")

\* the classification without the check of the status code
AutobrrClassifyNoCode(res) ==
    IF res.err # ""
    THEN CreateHealthResponse("offline", Msg("Failed to connect", res.err, 0, <<>>), NoExtras, 200)
    ELSE IF ReadFails(res)
    THEN CreateHealthResponse("error", Msg("Failed to read response", "read", 0, <<>>), NoExtras, 200)
    ELSE IF AutobrrTrimmed(res.body) \notin {<<"healthy">>, <<"OK">>}
    THEN CreateHealthResponse("error",
             Msg("Autobrr reported unhealthy status", "", 0, AutobrrTrimmed(res.body)),
             NoExtras, 200)
    ELSE NoResult

\* the result of a liveness response that ends the check, or status "none"
\* when the probe is accepted
AutobrrClassify(res) ==
    IF res.err # ""
    THEN CreateHealthResponse("offline", Msg("Failed to connect", res.err, 0, <<>>), NoExtras, 200)
    ELSE IF res.code # 200
    THEN CreateHealthResponse("error", Msg("Unexpected status code", "", res.code, <<>>), NoExtras, 200)
    ELSE IF ReadFails(res)
    THEN CreateHealthResponse("error", Msg("Failed to read response", "read", 0, <<>>), NoExtras, 200)
    ELSE IF AutobrrTrimmed(res.body) \notin {<<"healthy">>, <<"OK">>}
    THEN CreateHealthResponse("error",
             Msg("Autobrr reported unhealthy status", "", 0, AutobrrTrimmed(res.body)),
             NoExtras, 200)
    ELSE NoResult

\* CheckHealth up to the release-stats request: the configuration check,
\* the context of the whole check, the two goroutines
AutobrrStart(url, key) ==
    /\ Accepting
    /\ main.pc = "idle"
    /\ main.variant \in {"none", "autobrr"}
    /\ IF url = <<>> \/ key = ""
       THEN /\ main' = [main EXCEPT !.pc = "done", !.variant = "autobrr",
                                    !.url = url, !.key = key]
            /\ result' = CreateHealthResponse("pending", Text("Autobrr not configured"),
                                              NoExtras, 200)
            /\ UNCHANGED <<task, req, log>>
       ELSE /\ main' = [main EXCEPT !.pc = "stats", !.variant = "autobrr",
                                    !.url = url, !.key = key,
                                    !.ctx = now + CheckTimeout]
            /\ task' = [t \in Tasks |-> [OffTask EXCEPT !.pc = "start"]]
            /\ \E o \in Upstream(key, StatsOutcomes) :
                   req' = [req EXCEPT !.main =
                       MakeRequestWithContext("stats", now + StatsTimeout, o)]
            /\ log' = [Issued(log) EXCEPT !.spawned = 2]
            /\ UNCHANGED result
    /\ UNCHANGED <<conf, db, srv, now, cache, chan>>

\* GetReleaseStats succeeded
StatsOk(res) == res.err = "" /\ res.code = 200 /\ ~ReadFails(res) /\ res.body.k = "obj"

\* GetReleaseStats returns; the liveness request is made under the context
\* of the check
AutobrrStatsDone ==
    /\ Alive
    /\ main.variant = "autobrr"
    /\ main.pc = "stats"
    /\ Ready("main")
    /\ \E o \in Upstream(main.key, LivenessOutcomes) :
           /\ req' = [req EXCEPT !.main = MakeRequestWithContext("liveness", main.ctx, o)]
           /\ main' = [main EXCEPT !.pc = "live",
                                   !.stats = IF StatsOk(req.main.res) THEN "stats" ELSE "zero",
                                   !.probeOut = o]
    /\ log' = Issued(log)
    /\ UNCHANGED <<conf, db, srv, now, cache, task, chan, result>>

\* the liveness response is classified; an accepted probe starts the wait
\* for the version
AutobrrLivenessDone ==
    /\ Alive
    /\ main.variant = "autobrr"
    /\ main.pc = "live"
    /\ Ready("main")
    /\ LET res == req.main.res
           r == AutobrrClassify(res)
       IN  IF r.status # "none"
           THEN /\ result' = r
                /\ main' = [main EXCEPT !.pc = "done", !.probe = res]
           ELSE /\ main' = [main EXCEPT !.pc = "waitver", !.probe = res,
                                        !.respTime = HeaderMs(res.hdr),
                                        !.waitStart = now]
                /\ UNCHANGED result
    /\ req' = [req EXCEPT !.main = NoReq]
    /\ UNCHANGED <<conf, db, srv, now, cache, task, chan, log>>

\* a wait for the version that goes on to the IRC status at once
AutobrrWaitVersionSkip ==
    /\ Alive
    /\ main.variant = "autobrr"
    /\ main.pc = "waitver"
    /\ \/ /\ chan.version # <<>>
          /\ main' = [main EXCEPT !.pc = "irccall", !.version = Head(chan.version),
                                  !.verWait = "got", !.waitStart = now]
          /\ chan' = [chan EXCEPT !.version = Tail(@)]
       \/ /\ now >= main.waitStart + GracePeriod
          /\ main' = [main EXCEPT !.pc = "irccall", !.verWait = "timeout",
                                  !.waitStart = now]
          /\ UNCHANGED chan
    /\ UNCHANGED <<conf, db, srv, now, cache, task, req, result, log>>

\* select on versionChan and time.After(2 * time.Second)
AutobrrWaitVersion ==
    /\ Alive
    /\ main.variant = "autobrr"
    /\ main.pc = "waitver"
    /\ \/ /\ chan.version # <<>>
          /\ main' = [main EXCEPT !.pc = "waitupd", !.version = Head(chan.version),
                                  !.verWait = "got", !.waitStart = now]
          /\ chan' = [chan EXCEPT !.version = Tail(@)]
       \/ /\ now >= main.waitStart + GracePeriod
          /\ main' = [main EXCEPT !.pc = "waitupd", !.verWait = "timeout",
                                  !.waitStart = now]
          /\ UNCHANGED chan
    /\ UNCHANGED <<conf, db, srv, now, cache, task, req, result, log>>

\* select on updateChan and time.After(2 * time.Second)
AutobrrWaitUpdate ==
    /\ Alive
    /\ main.variant = "autobrr"
    /\ main.pc = "waitupd"
    /\ \/ /\ chan.update # <<>>
          /\ main' = [main EXCEPT !.pc = "irccall", !.hasUpdate = Head(chan.update),
                                  !.updWait = "got"]
          /\ chan' = [chan EXCEPT !.update = Tail(@)]
       \/ /\ now >= main.waitStart + GracePeriod
          /\ main' = [main EXCEPT !.pc = "irccall", !.updWait = "timeout"]
          /\ UNCHANGED chan
    /\ UNCHANGED <<conf, db, srv, now, cache, task, req, result, log>>

\* GetIRCStatus up to its request: a cached list ends the check at once
AutobrrIrcStart ==
    /\ Alive
    /\ main.variant = "autobrr"
    /\ main.pc = "irccall"
    /\ LET c == IrcCached(main.url)
       IN  IF c.hit
           THEN /\ result' = AutobrrAssemble(main, c.list, "")
                /\ main' = [main EXCEPT !.pc = "done", !.ircFrom = "cache"]
                /\ log' = CacheRead(log)
                /\ UNCHANGED req
           ELSE /\ \E o \in Upstream(main.key, IrcOutcomes) :
                       req' = [req EXCEPT !.main =
                           MakeRequestWithContext("irc", now + IrcTimeout, o)]
                /\ main' = [main EXCEPT !.pc = "irc"]
                /\ log' = IssuedFor(CacheRead(log), "irc")
                /\ UNCHANGED result
    /\ UNCHANGED <<conf, db, srv, now, cache, task, chan>>

\* GetIRCStatus returns and the result is assembled
AutobrrIrcDone ==
    /\ Alive
    /\ main.variant = "autobrr"
    /\ main.pc = "irc"
    /\ Ready("main")
    /\ LET res == req.main.res
           got == IrcOf(res)
           Return(ret) ==
               /\ result' = AutobrrAssemble(main, ret.list, ret.err)
               /\ main' = [main EXCEPT !.pc = "done", !.ircErr = ret.err,
                                       !.ircFrom = "net", !.ircRes = res]
       IN  IF ~got.put
           THEN Return(got) /\ UNCHANGED <<cache, log>>
           ELSE \E ok \in CacheWriteOutcomes :
                       /\ Return(AfterCacheWrite(got, ok))
                       /\ cache' = IF ok THEN CacheVersion(cache, IrcKey(main.url),
                                                           got.val, IrcTTL)
                                   ELSE cache
                       /\ log' =
                              LET key == IrcKey(main.url)
                                  w == CacheWrittenFor(log, "irc", key, got.val,
                                                       IrcTTL, ok)
                              IN  IF ok
                                  THEN [w EXCEPT
                                           !.wr[key].ret = got.list,
                                           !.wr[key].status =
                                               AutobrrAssemble(main, got.list,
                                                               got.err).status]
                                  ELSE w
    /\ req' = [req EXCEPT !.main = NoReq]
    /\ UNCHANGED <<conf, db, srv, now, task, chan>>

----------------------------------------------------------------------------
(* maintainerr: getVersion, run by the goroutine CheckHealth starts, and   *)
(* CheckHealth.  Both use context.Background().                            *)

StatusOutcomes ==
    {ConnFail, Hang, Resp(0, 200, Garbage, ""), Resp(0, 200, Unreadable, ""),
     Resp(0, 500, Unreadable, "")}
    \cup {Resp(d, 200, ObjBody(StatusObj("m1", u)), "") : d \in Delays, u \in BOOLEAN}
    \cup {Resp(0, 200, ObjBody(StatusObj("m1", TRUE)), h) : h \in {"12", "-5"}}
    \cup {Resp(0, c, ObjBody(StatusObj("m1", FALSE)), "") : c \in {300, 404}}

\* getVersion up to its request
MaintainerrVersionStart ==
    /\ Alive
    /\ main.variant = "maintainerr"
    /\ task.ver.pc = "start"
    /\ LET cached == GetVersionFromCache(VersionKey(main.url))
       IN  IF cached # EmptyVal
           THEN /\ task' = [task EXCEPT !.ver = [@ EXCEPT !.pc = "send", !.hit = TRUE]]
                /\ chan' = [chan EXCEPT !.version = Append(@, CacheText(cached))]
                /\ log' = CacheRead(log)
                /\ UNCHANGED req
           ELSE /\ \E o \in StatusOutcomes :
                     req' = [req EXCEPT !.ver =
                         MakeRequestWithContext("status", NoDeadline, o)]
                /\ task' = [task EXCEPT !.ver = [@ EXCEPT !.pc = "req"]]
                /\ log' = IssuedFor(CacheRead(log), "version")
                /\ UNCHANGED chan
    /\ UNCHANGED <<conf, db, srv, now, cache, main, result>>

\* what getVersion returns for a response; the status code is not examined
MaintainerrVersionOf(res) ==
    IF res.err # "" THEN [failed |-> TRUE, version |-> "", err |-> "failed to make request"]
    ELSE IF ReadFails(res) THEN [failed |-> TRUE, version |-> "", err |-> "failed to read response"]
    ELSE IF res.body.k # "obj" THEN [failed |-> TRUE, version |-> "", err |-> "failed to parse response"]
    ELSE [failed |-> FALSE, version |-> res.body.items[1].version, err |-> ""]

\* getVersion from its response on, and the goroutine's first send: the
\* error on errChan when there is one, else the version on versionChan
MaintainerrVersionDone ==
    /\ Alive
    /\ main.variant = "maintainerr"
    /\ task.ver.pc = "req"
    /\ Ready("ver")
    /\ LET res == req.ver.res
           got == MaintainerrVersionOf(res)
           Send(ret) ==
               /\ task' = [task EXCEPT !.ver =
                      [@ EXCEPT !.pc = "send", !.failed = ret.failed]]
               /\ IF ret.failed
                  THEN chan' = [chan EXCEPT !.err = Append(@, ret.err)]
                  ELSE chan' = [chan EXCEPT !.version = Append(@, ret.version)]
       IN  IF got.failed
           THEN Send(got) /\ UNCHANGED <<cache, log>>
           ELSE \E ok \in CacheWriteOutcomes :
                       /\ Send(AfterCacheWrite(got, ok))
                       /\ cache' = IF ok THEN CacheVersion(cache, VersionKey(main.url),
                                                  CacheStr(got.version), MaintainerrTTL)
                                   ELSE cache
                       /\ log' = CacheWrittenFor(log, "version", VersionKey(main.url),
                                                  CacheStr(got.version), MaintainerrTTL, ok)
    /\ req' = [req EXCEPT !.ver = NoReq]
    /\ UNCHANGED <<conf, db, srv, now, main, result>>

\* a goroutine that ends after a version without the send on errChan
MaintainerrVersionSendNoErr ==
    /\ Alive
    /\ main.variant = "maintainerr"
    /\ task.ver.pc = "send"
    /\ IF task.ver.failed
       THEN chan' = [chan EXCEPT !.version = Append(@, "")]
       ELSE UNCHANGED chan
    /\ task' = [task EXCEPT !.ver = [@ EXCEPT !.pc = "done"]]
    /\ UNCHANGED <<conf, db, srv, now, cache, main, req, result, log>>

\* the goroutine's second send: "" on versionChan after an error, nil on
\* errChan after a version
MaintainerrVersionSend ==
    /\ Alive
    /\ main.variant = "maintainerr"
    /\ task.ver.pc = "send"
    /\ IF task.ver.failed
       THEN chan' = [chan EXCEPT !.version = Append(@, "")]
       ELSE chan' = [chan EXCEPT !.err = Append(@, "")]
    /\ task' = [task EXCEPT !.ver = [@ EXCEPT !.pc = "done"]]
    /\ UNCHANGED <<conf, db, srv, now, cache, main, req, result, log>>

\* CheckHealth up to the probe of the status endpoint
MaintainerrStart(url, key) ==
    /\ Accepting
    /\ main.pc = "idle"
    /\ main.variant \in {"none", "maintainerr"}
    /\ IF url = <<>>
       THEN /\ main' = [main EXCEPT !.pc = "done", !.variant = "maintainerr",
                                    !.url = url, !.key = key]
            /\ result' = CreateHealthResponse("error", Text("URL is required"), NoExtras, 400)
            /\ UNCHANGED <<task, req, log>>
       ELSE /\ \E o \in StatusOutcomes :
                 /\ req' = [req EXCEPT !.main =
                        MakeRequestWithContext("status", NoDeadline, o)]
                 /\ main' = [main EXCEPT !.pc = "live", !.variant = "maintainerr",
                                         !.url = url, !.key = key,
                                         !.ctx = NoDeadline, !.probeOut = o]
            /\ task' = [task EXCEPT !.ver = [OffTask EXCEPT !.pc = "start"]]
            /\ log' = [Issued(log) EXCEPT !.spawned = 1]
            /\ UNCHANGED result
    /\ UNCHANGED <<conf, db, srv, now, cache, chan>>

\* the message for a status code of 400 and above
MaintainerrCodeMsg(code) ==
    CASE code \in {502, 503, 504} -> Msg("Service is temporarily unavailable", "", code, <<>>)
      [] code = 401 -> Text("Invalid API key")
      [] code = 403 -> Text("Access forbidden")
      [] code = 404 -> Text("Service endpoint not found")
      [] OTHER -> Msg("Server returned", "", code, <<>>)

\* the result of a probe response that ends the check, or status "none"
MaintainerrClassify(res) ==
    IF res.err # ""
    THEN CreateHealthResponse("offline", Msg("Failed to connect", res.err, 0, <<>>), NoExtras, 200)
    ELSE IF ReadFails(res)
    THEN CreateHealthResponse("error", Msg("Failed to read response", "read", 0, <<>>), NoExtras, 200)
    ELSE IF res.code >= 400
    THEN CreateHealthResponse("error", MaintainerrCodeMsg(res.code), NoExtras, 200)
    ELSE IF res.body.k # "obj"
    THEN CreateHealthResponse("error", Msg("Failed to parse status response", "json", 0, <<>>),
                              NoExtras, 200)
    ELSE NoResult

\* the probe response is classified; an accepted probe starts the wait
MaintainerrProbeDone ==
    /\ Alive
    /\ main.variant = "maintainerr"
    /\ main.pc = "live"
    /\ Ready("main")
    /\ LET res == req.main.res
           r == MaintainerrClassify(res)
       IN  IF r.status # "none"
           THEN /\ result' = r
                /\ main' = [main EXCEPT !.pc = "done", !.probe = res]
           ELSE /\ main' = [main EXCEPT !.pc = "waitver", !.probe = res,
                                        !.respTime = HeaderMs(res.hdr),
                                        !.bodyUpdate = res.body.items[1].updateAvailable,
                                        !.waitStart = now]
                /\ UNCHANGED result
    /\ req' = [req EXCEPT !.main = NoReq]
    /\ UNCHANGED <<conf, db, srv, now, cache, task, chan, log>>

\* the result of a check whose probe was accepted
MaintainerrAssemble(m, version, versionErr) ==
    CreateHealthResponse("online", Text("Healthy"),
        [NoExtras EXCEPT
            !.has = {"version", "updateAvailable", "responseTime"}
                        \cup (IF versionErr # "" THEN {"versionError"} ELSE {}),
            !.version = version, !.updateAvailable = m.bodyUpdate,
            !.responseTime = m.respTime, !.versionError = versionErr],
        200)

\* select on versionChan and time.After(2 * time.Second)
MaintainerrWaitVersion ==
    /\ Alive
    /\ main.variant = "maintainerr"
    /\ main.pc = "waitver"
    /\ \/ /\ chan.version # <<>>
          /\ main' = [main EXCEPT !.pc = "waiterr", !.version = Head(chan.version),
                                  !.verWait = "got"]
          /\ chan' = [chan EXCEPT !.version = Tail(@)]
          /\ UNCHANGED result
       \/ /\ now >= main.waitStart + GracePeriod
          /\ main' = [main EXCEPT !.pc = "done", !.verWait = "timeout",
                                  !.versionErr = "version check timed out"]
          /\ result' = MaintainerrAssemble(main, "", "version check timed out")
          /\ UNCHANGED chan
    /\ UNCHANGED <<conf, db, srv, now, cache, task, req, log>>

\* versionErr = <-errChan, then the result
MaintainerrWaitErr ==
    /\ Alive
    /\ main.variant = "maintainerr"
    /\ main.pc = "waiterr"
    /\ chan.err # <<>>
    /\ main' = [main EXCEPT !.pc = "done", !.versionErr = Head(chan.err)]
    /\ result' = MaintainerrAssemble(main, main.version, Head(chan.err))
    /\ chan' = [chan EXCEPT !.err = Tail(@)]
    /\ UNCHANGED <<conf, db, srv, now, cache, task, req, log>>

----------------------------------------------------------------------------
(* The generic HTTP checker.                                               *)

\* strings.ToLower on the status words the upstreams send
ToLower(w) ==
    CASE w \in {"OK", "Ok", "oK"} -> "ok"
      [] w \in {"Healthy", "HEALTHY"} -> "healthy"
      [] w \in {"ONLINE", "Online"} -> "online"
      [] w \in {"Warning", "WARNING"} -> "warning"
      [] w \in {"Unhealthy", "UNHEALTHY"} -> "unhealthy"
      [] w \in {"Error", "ERROR"} -> "error"
      [] w \in {"Offline", "OFFLINE"} -> "offline"
      [] w \in {"Weird"} -> "weird"
      [] OTHER -> w

\* the words upstreams put in the status field
StatusWords ==
    {"OK", "healthy", "Online", "unhealthy", "ERROR", "offline", "Warning",
     "Weird", "starting"}

GeneralBodies ==
    {ObjBody(HealthObj(w, "all good")) : w \in StatusWords}
    \cup {ObjBody(HealthObj("OK", "")), ObjBody(ZeroObj),
          TextBody(<<"OK">>), TextBody(<<"sp", "ok", "sp">>),
          TextBody(<<"nope">>), TextBody(<<"sp", "not", "sp", "ok", "sp">>),
          TextBody(<<>>), Unreadable}

GeneralOutcomes ==
    {ConnFail, Hang}
    \cup {Resp(0, c, b, "") : c \in {200, 500}, b \in GeneralBodies}
    \cup {Resp(d, 200, TextBody(<<"OK">>), h) :
              d \in Delays, h \in {"", "12", "1.5", "-5", "abc"}}

\* the mapping applied to the status field as the upstream wrote it
GeneralStatusExact(o) ==
    IF "status" \notin o.has THEN "online"
    ELSE CASE o.status \in {"healthy", "ok", "online"} -> "online"
           [] o.status \in {"unhealthy", "error", "offline"} -> "offline"
           [] o.status = "warning" -> "warning"
           [] OTHER -> "unknown"

\* the normalized status for the status field of a JSON body
GeneralStatus(o) ==
    IF "status" \notin o.has THEN "online"
    ELSE CASE ToLower(o.status) \in {"healthy", "ok", "online"} -> "online"
           [] ToLower(o.status) \in {"unhealthy", "error", "offline"} -> "offline"
           [] ToLower(o.status) = "warning" -> "warning"
           [] OTHER -> "unknown"

\* a comparison with "ok" that tells upper case from lower case
EqualOk(text) == text = <<"ok">>

\* strings.EqualFold(text, "ok")
EqualFoldOk(text) == Len(text) = 1 /\ ToLower(text[1]) = "ok"

GeneralExtras(res) ==
    [NoExtras EXCEPT !.has = {"responseTime"}, !.responseTime = HeaderMs(res.hdr)]

\* the classification with a failed request reported as a protocol error
GeneralClassifyErr(res) ==
    IF res.err # "" \/ ReadFails(res)
    THEN CreateHealthResponse("error", Msg("Failed to connect", res.err, 0, <<>>), NoExtras, 503)
    ELSE CreateHealthResponse("online", Text(""), GeneralExtras(res), res.code)

\* the result for the outcome of the request
GeneralClassify(res) ==
    IF res.err # ""
    THEN CreateHealthResponse("offline", Msg("Failed to connect", res.err, 0, <<>>), NoExtras, 503)
    ELSE IF ReadFails(res)
    THEN CreateHealthResponse("error", Msg("Failed to read response", "read", 0, <<>>), NoExtras, 500)
    ELSE IF res.body.k = "obj"
    THEN LET o == res.body.items[1]
         IN  CreateHealthResponse(GeneralStatus(o),
                 Text(IF "message" \in o.has THEN o.message ELSE ""),
                 GeneralExtras(res), res.code)
    ELSE LET textResponse == TrimSpace(BodyText(res.body))
         IN  IF EqualFoldOk(textResponse)
             THEN CreateHealthResponse("online", Text(""), GeneralExtras(res), res.code)
             ELSE CreateHealthResponse("error",
                      Msg("Unexpected response", "", 0, textResponse),
                      GeneralExtras(res), res.code)

\* CheckHealth up to its request
GeneralStart(url, key) ==
    /\ Accepting
    /\ main.pc = "idle"
    /\ main.variant \in {"none", "general"}
    /\ IF url = <<>>
       THEN /\ main' = [main EXCEPT !.pc = "done", !.variant = "general",
                                    !.url = url, !.key = key]
            /\ result' = CreateHealthResponse("error", Text("URL is required"), NoExtras, 400)
            /\ UNCHANGED <<req, log>>
       ELSE /\ \E o \in GeneralOutcomes :
                 /\ req' = [req EXCEPT !.main =
                        MakeRequestWithContext("general", now + GeneralTimeout, o)]
                 /\ main' = [main EXCEPT !.pc = "live", !.variant = "general",
                                         !.url = url, !.key = key,
                                         !.ctx = now + GeneralTimeout, !.probeOut = o]
            /\ log' = Issued(log)
            /\ UNCHANGED result
    /\ UNCHANGED <<conf, db, srv, now, cache, task, chan>>

\* CheckHealth from the response on
GeneralDone ==
    /\ Alive
    /\ main.variant = "general"
    /\ main.pc = "live"
    /\ Ready("main")
    /\ result' = GeneralClassify(req.main.res)
    /\ main' = [main EXCEPT !.pc = "done", !.probe = req.main.res]
    /\ req' = [req EXCEPT !.main = NoReq]
    /\ UNCHANGED <<conf, db, srv, now, cache, task, chan, log>>

\* a GetVersion that reports the missing support as an error
GeneralGetVersionUnsupported(url, key) ==
    [version |-> "", err |-> "version not supported"]

\* GetVersion: no request, no version, no error
GeneralGetVersion(url, key) == [version |-> "", err |-> ""]

----------------------------------------------------------------------------
(* prowlarr: GetSystemStatus, the version lookup of the checker.  It       *)
(* returns a version and an error, kept in the locals of the call.         *)

ProwlarrOutcomes ==
    {ConnFail, Hang, Resp(0, 500, ObjBody(VersionObj("p1")), ""),
     Resp(0, 200, Garbage, ""), Resp(0, 200, Unreadable, ""),
     Resp(0, 200, ObjBody(ZeroObj), ""),
     Resp(0, 200, ObjBody(VersionObj("p1")), ""),
     Resp(SlowDelay, 200, ObjBody(VersionObj("p1")), "")}

\* GetSystemStatus up to its request: the URL check and the cache lookup
ProwlarrStart(url, key) ==
    /\ Accepting
    /\ main.pc = "idle"
    /\ main.variant \in {"none", "prowlarr"}
    /\ IF url = <<>>
       THEN /\ main' = [main EXCEPT !.pc = "done", !.variant = "prowlarr",
                                    !.url = url, !.key = key,
                                    !.versionErr = "URL is required"]
            /\ UNCHANGED <<req, log>>
       ELSE LET cached == GetVersionFromCache(VersionKey(url))
            IN  IF cached # EmptyVal
                THEN /\ main' = [main EXCEPT !.pc = "done", !.variant = "prowlarr",
                                             !.url = url, !.key = key,
                                             !.version = CacheText(cached), !.verFrom = "cache"]
                     /\ log' = CacheRead(log)
                     /\ UNCHANGED req
                ELSE /\ \E o \in ProwlarrOutcomes :
                          req' = [req EXCEPT !.main =
                              MakeRequestWithContext("system", now + ProwlarrTimeout, o)]
                     /\ main' = [main EXCEPT !.pc = "sys", !.variant = "prowlarr",
                                             !.url = url, !.key = key,
                                             !.ctx = now + ProwlarrTimeout]
                     /\ log' = IssuedFor(CacheRead(log), "version")
    /\ UNCHANGED <<conf, db, srv, now, cache, task, chan, result>>

\* what GetSystemStatus returns for a response
ProwlarrVersionOf(res) ==
    IF res.err # "" THEN [failed |-> TRUE, version |-> "", err |-> "failed to make request"]
    ELSE IF res.code # 200 THEN [failed |-> TRUE, version |-> "", err |-> "server returned"]
    ELSE IF ReadFails(res) THEN [failed |-> TRUE, version |-> "", err |-> "failed to read response"]
    ELSE IF res.body.k # "obj" THEN [failed |-> TRUE, version |-> "", err |-> "failed to parse response"]
    ELSE [failed |-> FALSE, version |-> res.body.items[1].version, err |-> ""]

\* GetSystemStatus from its response on
ProwlarrDone ==
    /\ Alive
    /\ main.variant = "prowlarr"
    /\ main.pc = "sys"
    /\ Ready("main")
    /\ LET res == req.main.res
           got == ProwlarrVersionOf(res)
           Return(ret) ==
               main' = [main EXCEPT !.pc = "done", !.verFrom = "net",
                                    !.version = ret.version,
                                    !.versionErr = IF ret.failed /\ ret.err = ""
                                                   THEN "failed to cache version"
                                                   ELSE ret.err]
       IN  IF got.failed
           THEN Return(got) /\ UNCHANGED <<cache, log>>
           ELSE \E ok \in CacheWriteOutcomes :
                    /\ Return(AfterCacheWrite(got, ok))
                    /\ cache' = IF ok THEN CacheVersion(cache, VersionKey(main.url),
                                               CacheStr(got.version), ProwlarrTTL)
                                ELSE cache
                    /\ log' = CacheWrittenFor(log, "version", VersionKey(main.url),
                                               CacheStr(got.version), ProwlarrTTL, ok)
    /\ req' = [req EXCEPT !.main = NoReq]
    /\ UNCHANGED <<conf, db, srv, now, task, chan, result>>

----------------------------------------------------------------------------
(* maintainerr: GetCollections, under context.Background().                *)

\* a JSON object of the collections endpoint
CollectionObj(id, has, active) ==
    [obj |-> TRUE, has |-> has, id |-> id, isActive |-> active]

\* Collection: the fields json.Unmarshal fills, the zero value for a field
\* the object does not have
Collection(o) ==
    [id |-> IF "id" \in o.has THEN o.id ELSE 0,
     isActive |-> "isActive" \in o.has /\ o.isActive]

CollectionOutcomes ==
    {ConnFail, Hang, Resp(0, 500, Garbage, ""), Resp(0, 404, ArrBody(<<>>), ""),
     Resp(0, 200, Unreadable, ""), Resp(0, 200, Garbage, ""),
     Resp(0, 200, Body("null", <<>>, <<>>), ""), Resp(0, 200, ArrBody(<<>>), ""),
     Resp(0, 200, ArrBody(<<CollectionObj(1, {"id", "isActive"}, TRUE),
                            [obj |-> FALSE, has |-> {}, id |-> 0,
                             isActive |-> FALSE]>>), ""),
     Resp(0, 200, ArrBody(<<CollectionObj(1, {"id", "isActive"}, TRUE),
                            CollectionObj(2, {"id", "isActive"}, FALSE),
                            CollectionObj(3, {"id", "isActive"}, TRUE)>>), ""),
     Resp(0, 200, ObjBody(CollectionObj(1, {"id"}, FALSE)), "")}
    \cup {Resp(d, 200, ArrBody(<<CollectionObj(2, {"id", "isActive"}, a),
                                 CollectionObj(1, {"id", "isActive"}, b)>>), "") :
              d \in Delays, a \in BOOLEAN, b \in BOOLEAN}
    \cup {Resp(0, 200, ObjBody(CollectionObj(1, {"id", "isActive"}, a)), "") :
              a \in BOOLEAN}

\* what GetCollections returns: the list, whether it is nil, the error and
\* the HTTP code kept in the error
CollectionsReturn(list, isNil, err, code) ==
    [list |-> list, nil |-> isNil, err |-> err, code |-> code]

\* json.Unmarshal(body, &collections)
UnmarshalCollections(body) ==
    IF body.k = "null" THEN [ok |-> TRUE, list |-> <<>>]
    ELSE IF body.k = "arr" /\ \A i \in 1..Len(body.items) : body.items[i].obj
    THEN [ok |-> TRUE, list |-> [i \in 1..Len(body.items) |-> Collection(body.items[i])]]
    ELSE [ok |-> FALSE, list |-> <<>>]

RECURSIVE ActiveCollections(_)
\* the loop that appends the active collections, in order
ActiveCollections(list) ==
    IF list = <<>> THEN <<>>
    ELSE IF Head(list).isActive
         THEN <<Head(list)>> \o ActiveCollections(Tail(list))
         ELSE ActiveCollections(Tail(list))

\* a decoding that gives up when the body is not an array
GetCollectionsOfArrayOnly(res) ==
    IF res.err # "" \/ res.code # 200 \/ ReadFails(res)
    THEN CollectionsReturn(<<>>, TRUE, "failed to connect", 0)
    ELSE LET arr == UnmarshalCollections(res.body)
         IN  IF arr.ok THEN CollectionsReturn(ActiveCollections(arr.list), FALSE, "", 0)
             ELSE CollectionsReturn(<<>>, TRUE, "failed to parse response", 0)

\* GetCollections on the outcome of its request
GetCollectionsOf(res) ==
    IF res.err # ""
    THEN CollectionsReturn(<<>>, TRUE, "failed to connect", 0)
    ELSE IF res.code # 200
    THEN CollectionsReturn(<<>>, TRUE, "http", res.code)
    ELSE IF ReadFails(res)
    THEN CollectionsReturn(<<>>, TRUE, "failed to read response", 0)
    ELSE LET arr == UnmarshalCollections(res.body)
         IN  IF arr.ok
             THEN CollectionsReturn(ActiveCollections(arr.list), FALSE, "", 0)
             ELSE IF res.body.k # "obj"
             THEN CollectionsReturn(<<>>, TRUE, "failed to parse response", 0)
             ELSE LET singleCollection == Collection(res.body.items[1])
                  IN  CollectionsReturn(
                          ActiveCollections(IF singleCollection.isActive
                                            THEN <<singleCollection>>
                                            ELSE <<>>), FALSE, "", 0)

\* GetCollections up to its request
GetCollectionsStart(url, key) ==
    /\ Accepting
    /\ main.pc = "idle"
    /\ main.variant \in {"none", "collections"}
    /\ IF url = <<>> \/ key = ""
       THEN /\ main' = [main EXCEPT !.pc = "done", !.variant = "collections",
                                    !.url = url, !.key = key]
            /\ result' = CollectionsReturn(<<>>, TRUE,
                              IF url = <<>> THEN "URL is required"
                              ELSE "API key is required", 0)
            /\ UNCHANGED <<req, log>>
       ELSE /\ \E o \in CollectionOutcomes :
                 /\ req' = [req EXCEPT !.main =
                        MakeRequestWithContext("collections", NoDeadline, o)]
                 /\ main' = [main EXCEPT !.pc = "coll", !.variant = "collections",
                                         !.url = url, !.key = key, !.probeOut = o]
            /\ log' = Issued(log)
            /\ UNCHANGED result
    /\ UNCHANGED <<conf, db, srv, now, cache, task, chan>>

\* the response is decoded and the active collections are returned
GetCollectionsDone ==
    /\ Alive
    /\ main.variant = "collections"
    /\ main.pc = "coll"
    /\ Ready("main")
    /\ result' = GetCollectionsOf(req.main.res)
    /\ main' = [main EXCEPT !.pc = "done", !.probe = req.main.res]
    /\ req' = [req EXCEPT !.main = NoReq]
    /\ UNCHANGED <<conf, db, srv, now, cache, task, chan, log>>

----------------------------------------------------------------------------
(* The clock.                                                              *)

\* main is blocked in a select with a timer
Waiting == main.pc \in {"waitver", "waitupd"}

\* a request is being served: the CheckHealth call has not returned
InFlight == main.pc \notin {"idle", "done"}
\* the goroutines of the call that have not ended
Running == {t \in Tasks : task[t].pc \notin {"off", "done"}}
\* srv.Shutdown is waiting for the connections to become idle
Draining == srv.pc = "draining"

\* some task can take a step now
Urgent ==
    \/ \E p \in Procs : Ready(p)
    \/ \E t \in Tasks : task[t].pc \in {"start", "send"}
    \/ main.pc = "irccall"
    \/ main.pc = "waitver" /\ chan.version # <<>>
    \/ main.pc = "waiterr" /\ chan.err # <<>>
    \/ main.pc = "waitupd" /\ chan.update # <<>>
    \/ Waiting /\ now >= main.waitStart + GracePeriod
    \/ Draining /\ (~InFlight \/ now >= srv.deadline)
    \/ srv.pc = "returning"

\* the times at which a blocked task wakes up
WakeTimes ==
    {req[p].due : p \in {q \in Procs : req[q].ep # "none" /\ req[q].due # Never}}
    \cup (IF Waiting THEN {main.waitStart + GracePeriod} ELSE {})
    \cup (IF Draining THEN {srv.deadline} ELSE {})

Min(S) == CHOOSE x \in S : \A y \in S : x <= y

\* every task is blocked: time passes until the first of them wakes up
Advance ==
    /\ Alive
    /\ ~Urgent
    /\ WakeTimes # {}
    /\ now' = Min(WakeTimes)
    /\ UNCHANGED <<conf, db, srv, cache, main, task, chan, req, result, log>>

\* the time between the end of a call and the next one: none, or as long as
\* the TTL of the IRC status, or of the autobrr version
Gaps == {0, IrcTTL, VersionTTL}

\* TTLs and gaps are whole multiples of this many seconds, and the calls
\* made one after the other take less than that together
Grain == IrcTTL

\* the lifetime left of an entry, without the time spent inside calls
RoundUp(left) == ((left + Grain - 1) \div Grain) * Grain

\* The call has returned and its goroutines have ended: the caller polls
\* the instance again, with the same checker, after a gap.  Times are
\* counted from the new call on.  An expired entry stays in the store with
\* no lifetime left.  The time spent inside calls is not counted against
\* the lifetime of an entry: it is shorter than Grain, so it never decides
\* whether a read finds the entry.
Poll(gap) ==
    /\ Alive
    /\ main.pc = "done"
    /\ \A t \in Tasks : task[t].pc \in {"off", "done"}
    /\ log.checks + 1 < MaxChecks
    /\ now' = 0
    /\ cache' = [k \in Keys |->
           LET left == cache[k].exp - now - gap
           IN  [val |-> cache[k].val,
                exp |-> IF left > 0 THEN RoundUp(left) ELSE 0]]
    /\ log' = [NoLog EXCEPT
           !.checks = log.checks + 1,
           !.gap = gap,
           !.wr = [k \in Keys |->
                      IF log.wr[k].ttl = 0 THEN NoWrite
                      ELSE [log.wr[k] EXCEPT !.idle = @ + gap]]]
    /\ main' = [IdleMain EXCEPT !.variant = main.variant]
    /\ task' = [t \in Tasks |-> OffTask]
    /\ chan' = [version |-> <<>>, update |-> <<>>, err |-> <<>>]
    /\ req' = [p \in Procs |-> NoReq]
    /\ result' = NoResult
    /\ UNCHANGED <<conf, db, srv>>

NextCheck == \E gap \in Gaps : Poll(gap)

AutobrrNext ==
    \/ \E u \in Urls, k \in ApiKeys : AutobrrStart(u, k)
    \/ AutobrrVersionStart
    \/ AutobrrVersionDone
    \/ AutobrrUpdateStart
    \/ AutobrrUpdateDone
    \/ AutobrrStatsDone
    \/ AutobrrLivenessDone
    \/ AutobrrWaitVersion
    \/ AutobrrWaitUpdate
    \/ AutobrrIrcStart
    \/ AutobrrIrcDone

MaintainerrNext ==
    \/ \E u \in Urls, k \in ApiKeys : MaintainerrStart(u, k)
    \/ MaintainerrVersionStart
    \/ MaintainerrVersionDone
    \/ MaintainerrVersionSend
    \/ MaintainerrProbeDone
    \/ MaintainerrWaitVersion
    \/ MaintainerrWaitErr

GeneralNext ==
    \/ \E u \in Urls, k \in ApiKeys : GeneralStart(u, k)
    \/ GeneralDone

ProwlarrNext ==
    \/ \E u \in Urls, k \in ApiKeys : ProwlarrStart(u, k)
    \/ ProwlarrDone

Next ==
    AutobrrNext \/ MaintainerrNext \/ GeneralNext \/ ProwlarrNext \/ Advance
        \/ NextCheck

Spec == Init /\ [][Next]_vars

----------------------------------------------------------------------------
(* The store of service configurations and users: two tables, each with a  *)
(* unique key and row IDs given in order.                                  *)

\* the rows of a service table with instance ID i
ServiceRows(rows, i) == {r \in rows : r.instanceID = i}

\* a CreateService that inserts without looking for the instance ID
CreateServiceUnchecked(i, d) ==
    /\ db.nextService <= MaxInserts
    /\ LET row == [id |-> db.nextService, instanceID |-> i, displayName |-> d]
       IN  db' = [db EXCEPT !.services = @ \cup {row},
                            !.nextService = @ + 1,
                            !.ret = Returned("CreateService", i, FALSE, {row}),
                            !.live = @ \cup {i}, !.last[i] = d,
                            !.idOf[i] = row.id]
    /\ UNCHANGED <<now, cache, main, task, chan, req, result, log, srv, conf>>

\* CreateService: an instance ID that is in the table is refused, any other
\* gets a row with the next ID, which is written back into the record
CreateService(i, d) ==
    /\ IF ServiceRows(db.services, i) # {}
       THEN db' = [db EXCEPT !.ret = Returned("CreateService", i, TRUE, {})]
       ELSE /\ db.nextService <= MaxInserts
            /\ LET row == [id |-> db.nextService, instanceID |-> i,
                           displayName |-> d]
               IN  db' = [db EXCEPT
                       !.services = @ \cup {row},
                       !.nextService = @ + 1,
                       !.ret = Returned("CreateService", i, FALSE, {row}),
                       !.live = @ \cup {i}, !.last[i] = d, !.idOf[i] = row.id]
    /\ UNCHANGED <<now, cache, main, task, chan, req, result, log, srv, conf>>

\* an UpdateService that leaves out the instance ID: every row is written
UpdateServiceAll(i, d) ==
    /\ IF ServiceRows(db.services, i) # {}
       THEN db' = [db EXCEPT
                !.services = {[r EXCEPT !.displayName = d] : r \in @},
                !.ret = Returned("UpdateService", i, FALSE, {}),
                !.last[i] = IF i \in db.live THEN d ELSE @]
       ELSE \E e \in BOOLEAN :
                db' = [db EXCEPT !.ret = Returned("UpdateService", i, e, {})]
    /\ UNCHANGED <<now, cache, main, task, chan, req, result, log, srv, conf>>

\* UpdateService: the rows with the instance ID take the new display name;
\* with no such row nothing changes, and the call may or may not report it
UpdateService(i, d) ==
    /\ IF ServiceRows(db.services, i) # {}
       THEN db' = [db EXCEPT
                !.services = {IF r.instanceID = i
                              THEN [r EXCEPT !.displayName = d] ELSE r : r \in @},
                !.ret = Returned("UpdateService", i, FALSE, {}),
                !.last[i] = IF i \in db.live THEN d ELSE @]
       ELSE \E e \in BOOLEAN :
                db' = [db EXCEPT !.ret = Returned("UpdateService", i, e, {})]
    /\ UNCHANGED <<now, cache, main, task, chan, req, result, log, srv, conf>>

\* DeleteService: the rows with the instance ID go; with no such row
\* nothing changes, and the call may or may not report it
DeleteService(i) ==
    /\ IF ServiceRows(db.services, i) # {}
       THEN db' = [db EXCEPT !.services = @ \ ServiceRows(@, i),
                             !.ret = Returned("DeleteService", i, FALSE, {}),
                             !.live = @ \ {i}]
       ELSE \E e \in BOOLEAN :
                db' = [db EXCEPT !.ret = Returned("DeleteService", i, e, {})]
    /\ UNCHANGED <<now, cache, main, task, chan, req, result, log, srv, conf>>

\* GetServiceByInstanceID: one row with the instance ID, or nil and no error
GetServiceByInstanceID(i) ==
    /\ LET found == ServiceRows(db.services, i)
       IN  db' = [db EXCEPT !.ret = Returned("GetServiceByInstanceID", i, FALSE,
                      IF found = {} THEN {} ELSE {CHOOSE r \in found : TRUE})]
    /\ UNCHANGED <<now, cache, main, task, chan, req, result, log, srv, conf>>

\* GetAllServices: every row of the table
GetAllServices ==
    /\ db' = [db EXCEPT !.ret = Returned("GetAllServices", "", FALSE, db.services)]
    /\ UNCHANGED <<now, cache, main, task, chan, req, result, log, srv, conf>>

\* CreateUser: a username or an email that is in the table is refused
CreateUser(u) ==
    /\ IF \E r \in db.users : r.username = u.username \/ r.email = u.email
       THEN db' = [db EXCEPT !.ret = Returned("CreateUser", u.username, TRUE, {})]
       ELSE /\ db.nextUser <= MaxInserts
            /\ LET row == [id |-> db.nextUser, username |-> u.username,
                           email |-> u.email]
               IN  db' = [db EXCEPT
                       !.users = @ \cup {row},
                       !.nextUser = @ + 1,
                       !.ret = Returned("CreateUser", u.username, FALSE, {row})]
    /\ UNCHANGED <<now, cache, main, task, chan, req, result, log, srv, conf>>

\* GetUserByUsername: one row with the username, or nil and no error
GetUserByUsername(name) ==
    /\ LET found == {r \in db.users : r.username = name}
       IN  db' = [db EXCEPT !.ret = Returned("GetUserByUsername", name, FALSE,
                      IF found = {} THEN {} ELSE {CHOOSE r \in found : TRUE})]
    /\ UNCHANGED <<now, cache, main, task, chan, req, result, log, srv, conf>>

StoreNext ==
    \/ \E i \in InstanceIDs, d \in DisplayNames : CreateService(i, d)
    \/ \E i \in InstanceIDs, d \in DisplayNames : UpdateService(i, d)
    \/ \E i \in InstanceIDs : DeleteService(i)
    \/ \E i \in InstanceIDs : GetServiceByInstanceID(i)
    \/ GetAllServices
    \/ \E u \in Users : CreateUser(u)
    \/ \E u \in Users : GetUserByUsername(u.username)

StoreSpec == Init /\ [][StoreNext]_vars

----------------------------------------------------------------------------
(* The process: startServer from the wait for a signal on.                 *)

\* SIGINT or SIGTERM arrives: srv.Shutdown is called under a context of ten
\* seconds and closes the listeners
Quit ==
    /\ srv.pc = "serving"
    /\ srv' = [srv EXCEPT !.pc = "draining", !.quit = TRUE,
                          !.deadline = now + ShutdownTimeout]
    /\ UNCHANGED <<conf, db, now, cache, main, task, chan, req, result, log>>

\* srv.Shutdown finds no request being served and returns nil: startServer
\* returns and its deferred calls run, last deferred first
ShutdownDone ==
    /\ Draining
    /\ ~InFlight
    /\ srv' = [srv EXCEPT !.pc = "returning"]
    /\ UNCHANGED <<conf, db, now, cache, main, task, chan, req, result, log>>

\* the deferred cacheStore.Close, whose error is logged
CacheClose ==
    /\ srv.pc = "returning"
    /\ srv.closed = 0
    /\ \E e \in BOOLEAN :
           srv' = [srv EXCEPT !.closed = @ + 1, !.closeErr = e]
    /\ UNCHANGED <<conf, db, now, cache, main, task, chan, req, result, log>>

\* a db.Close that does not wait for the cache store
DbCloseFirst ==
    /\ srv.pc = "returning"
    /\ srv' = [srv EXCEPT !.pc = "exited", !.dbClosed = @ + 1, !.exit = 0,
                          !.cut = Running]
    /\ UNCHANGED <<conf, db, now, cache, main, task, chan, req, result, log>>

\* the deferred db.Close, after which main returns and the process ends
\* with what goroutines are left
DbClose ==
    /\ srv.pc = "returning"
    /\ srv.closed = 1
    /\ srv' = [srv EXCEPT !.pc = "exited", !.dbClosed = @ + 1, !.exit = 0,
                          !.cut = Running]
    /\ UNCHANGED <<conf, db, now, cache, main, task, chan, req, result, log>>

\* the context of srv.Shutdown expires while a request is being served:
\* srv.Shutdown returns its error and log.Fatal ends the process at once,
\* without the deferred calls
ShutdownExpired ==
    /\ Draining
    /\ InFlight
    /\ now >= srv.deadline
    /\ srv' = [srv EXCEPT !.pc = "exited", !.exit = 1,
                          !.cut = {"main"} \cup Running]
    /\ UNCHANGED <<conf, db, now, cache, main, task, chan, req, result, log>>

\* srv.ListenAndServe fails when the server starts: log.Fatal ends the
\* process
ListenFails ==
    /\ srv.pc = "serving"
    /\ main.pc = "idle" /\ log.checks = 0
    /\ srv' = [srv EXCEPT !.pc = "exited", !.exit = 1]
    /\ UNCHANGED <<conf, db, now, cache, main, task, chan, req, result, log>>

\* One check served by a process that may be told to stop at any time.
ServerNext ==
    \/ AutobrrNext
    \/ MaintainerrNext
    \/ GeneralNext
    \/ ProwlarrNext
    \/ Advance
    \/ Quit
    \/ ShutdownDone
    \/ CacheClose
    \/ DbClose
    \/ ShutdownExpired
    \/ ListenFails

ServerSpec == Init /\ [][ServerNext]_vars

\* Two autobrr instances with their API keys, checked one after the other
\* against the one cache store.
FleetNext ==
    \/ \E u \in FleetUrls : AutobrrStart(u, "k")
    \/ AutobrrVersionStart
    \/ AutobrrVersionDone
    \/ AutobrrUpdateStart
    \/ AutobrrUpdateDone
    \/ AutobrrStatsDone
    \/ AutobrrLivenessDone
    \/ AutobrrWaitVersion
    \/ AutobrrWaitUpdate
    \/ AutobrrIrcStart
    \/ AutobrrIrcDone
    \/ Advance
    \/ Poll(0)

FleetSpec == Init /\ [][FleetNext]_vars

\* One autobrr instance checked again and again, by callers that hold
\* different API keys for it.
CredNext ==
    \/ \E k \in {"k", "x"} : AutobrrStart(<<"u">>, k)
    \/ AutobrrVersionStart
    \/ AutobrrVersionDone
    \/ AutobrrUpdateStart
    \/ AutobrrUpdateDone
    \/ AutobrrStatsDone
    \/ AutobrrLivenessDone
    \/ AutobrrWaitVersion
    \/ AutobrrWaitUpdate
    \/ AutobrrIrcStart
    \/ AutobrrIrcDone
    \/ Advance
    \/ NextCheck

CredSpec == Init /\ [][CredNext]_vars

\* GetCollections called again and again
CollectionsNext ==
    \/ \E u \in Urls, k \in ApiKeys : GetCollectionsStart(u, k)
    \/ GetCollectionsDone
    \/ Advance
    \/ NextCheck

CollectionsSpec == Init /\ [][CollectionsNext]_vars

\* LoadConfig called once, in any environment and with any file
ConfigInit ==
    /\ conf \in {Unloaded(e, f) : e \in Envs, f \in {"missing", "malformed", "full"}}
    /\ srv = Serving
    /\ db = EmptyDB
    /\ now = 0
    /\ cache = [k \in Keys |-> [val |-> EmptyVal, exp |-> 0]]
    /\ main = IdleMain
    /\ task = [t \in Tasks |-> OffTask]
    /\ chan = [version |-> <<>>, update |-> <<>>, err |-> <<>>]
    /\ req = [p \in Procs |-> NoReq]
    /\ result = NoResult
    /\ log = NoLog

ConfigSpec == ConfigInit /\ [][LoadConfig]_vars

----------------------------------------------------------------------------
(* Properties.                                                             *)

Done == main.pc = "done"
Product == main.variant \in {"autobrr", "maintainerr"}
\* the primary probe was made and its outcome seen
Probed == main.probe.err # "none"
TransportFailed == main.probe.err \in {"conn", "timeout", "ctx"}

\* the status codes and bodies a product checker does not accept
RejectedCode == IF main.variant = "autobrr" THEN main.probe.code # 200
                ELSE main.probe.code >= 400
RejectedBody == IF main.variant = "autobrr"
                THEN AutobrrTrimmed(main.probe.body) \notin {<<"healthy">>, <<"OK">>}
                ELSE main.probe.body.k # "obj"
ProbeFailed ==
    /\ Probed
    /\ TransportFailed \/ RejectedCode \/ ReadFails(main.probe) \/ RejectedBody
ProbeAccepted == Product /\ Probed /\ ~ProbeFailed

\* C1: when the primary probe of autobrr or maintainerr fails (transport
\* error, rejected status code, unreadable or rejected body), the returned
\* status is the probe's own classification, offline for a transport error
\* and error otherwise, never online or warning, whatever the auxiliary
\* fetches returned and whatever is cached.
C1_ProbeFailureWins ==
    Done /\ Product /\ ProbeFailed
        => /\ result.status = IF TransportFailed THEN "offline" ELSE "error"
           /\ result.status \notin {"online", "warning"}

\* a probe answered 500 while the version came from the cache of an earlier
\* call and release stats were fetched
C1_Witness ==
    /\ Done /\ main.variant = "autobrr" /\ ProbeFailed
    /\ main.probe.code = 500
    /\ main.stats = "stats"
    /\ task.ver.pc = "done" /\ task.ver.hit
    /\ result.status = "error"

\* C2: in every checker, a connection-level failure of the primary probe
\* (connection error, timeout, expired context) gives status offline.
C2_ConnFailureOffline ==
    Done /\ Probed /\ TransportFailed => result.status = "offline"

\* the generic checker's request ran into its deadline
C2_Witness ==
    /\ Done /\ main.variant = "general"
    /\ main.probe.err = "timeout"
    /\ result.status = "offline"

\* C3: in every checker, an upstream answering the primary probe with HTTP
\* 500 gives status error, whatever the body.
C3_Http500IsError ==
    Done /\ Probed /\ main.probe.err = "" /\ main.probe.code = 500
        => result.status = "error"

\* C4: for autobrr and maintainerr, a probe response with a status code
\* outside 200-299 gives error, a 2xx response whose body does not parse
\* gives error, and only transport failures give offline.
C4_ProductClassification ==
    Done /\ Product /\ Probed
        => /\ (main.probe.err = "" /\ main.probe.code \notin 200..299)
                  => result.status = "error"
           /\ (main.probe.err = "" /\ main.probe.code \in 200..299
                  /\ (ReadFails(main.probe) \/ RejectedBody))
                  => result.status = "error"
           /\ result.status = "offline" => TransportFailed

\* C5: CheckHealth with an empty URL (for autobrr also with an empty API
\* key) returns pending without a request, a goroutine or a cache access.
C5_EmptyUrlPending ==
    Done /\ main.variant # "prowlarr"
         /\ (main.url = <<>> \/ (main.variant = "autobrr" /\ main.key = ""))
        => /\ result.status = "pending"
           /\ log.net = 0 /\ log.spawned = 0
           /\ log.creads = 0 /\ log.cwrites = 0

\* the liveness endpoint answers at once with 200 and a healthy body
PromptHealthy ==
    /\ main.probeOut.kind = "resp" /\ main.probeOut.delay = 0
    /\ main.probeOut.code = 200
    /\ AutobrrTrimmed(main.probeOut.body) \in {<<"healthy">>, <<"OK">>}

\* C6: in autobrr, whenever the liveness endpoint would promptly answer 200
\* with a healthy body, the status is online or warning, whatever the
\* release-stats, version, update and IRC fetches did.
C6_AuxNeverEscalates ==
    Done /\ main.variant = "autobrr" /\ Probed /\ PromptHealthy
        => result.status \in {"online", "warning"}

\* a sub-check whose failure the call saw before it returned
AuxFailed ==
    \/ main.verWait = "timeout"
    \/ main.verWait = "got" /\ task.ver.failed
    \/ main.variant = "autobrr" /\ main.updWait = "timeout"
    \/ main.variant = "autobrr" /\ main.updWait = "got" /\ task.upd.failed
    \/ main.variant = "autobrr" /\ main.stats = "zero"
    \/ main.ircErr # ""

MainMessage ==
    IF main.variant = "autobrr" THEN Text("Autobrr is running") ELSE Text("Healthy")

\* C7: when the primary probe succeeds and a non-essential sub-check fails,
\* the status is warning and the main message is kept.
C7_AuxFailureWarns ==
    Done /\ ProbeAccepted /\ AuxFailed
        => result.status = "warning" /\ result.msg = MainMessage

\* C8: once CheckHealth has returned, a step of a background task leaves the
\* returned result (status, message, extras) and the call's locals alone;
\* the cache entries of the instance URL are all it may change.
C8_ReturnedResultFrozen ==
    [][(main.pc = "done" /\ main'.pc = "done")
          => /\ result' = result
             /\ main' = main
             /\ \A k \in Keys :
                    cache'[k] # cache[k]
                        => k \in {VersionKey(main.url), UpdateKey(main.url)}]_vars

\* the wait for the version timed out, the result went out without it, and
\* the version task then wrote the cache
C8_Witness ==
    /\ Done /\ main.variant = "autobrr"
    /\ main.verWait = "timeout" /\ result.extras.version = ""
    /\ log.late > 0
    /\ cache[VersionKey(main.url)].val = CacheStr("v1")

\* the status of an accepted autobrr probe, from the IRC outcome alone
IrcStatusOnly ==
    IF main.ircErr # "" \/ result.extras.irc # <<>> THEN "warning" ELSE "online"

C10_EveryRequestHasDeadline ==
    \A p \in Procs : req[p].ep # "none" => req[p].deadline # NoDeadline

----------------------------------------------------------------------------
(* Properties of the cache.                                                *)

\* an upper bound on the time a call and its goroutines run
CallTime == StatsTimeout + 2 * GracePeriod + IrcTimeout

\* the cache key of a signal
KeyOf(s, url) ==
    CASE s = "version" -> VersionKey(url)
      [] s = "update" -> UpdateKey(url)
      [] s = "irc" -> IrcKey(url)

\* the accepted write w is still within its TTL, however long the calls
\* since then took
Fresh(w) == w.ttl # 0 /\ w.idle + (log.checks - w.call + 1) * CallTime < w.ttl

\* the calls made one after the other take less than Grain together
ShortCalls == now <= CallTime /\ MaxChecks * CallTime < Grain
\* the TTL of the accepted write w has elapsed
Expired(w) == w.ttl # 0 /\ w.idle >= w.ttl

\* C11: when an earlier call for the same URL obtained a cached signal
\* (version, update flag, IRC status) and the store accepted it, a call made
\* within the TTL of that entry issues no request for the signal, whatever
\* the value was.
C11_SecondCallFromCache ==
    main.url # <<>> =>
        \A s \in Signals :
            LET w == log.wr[KeyOf(s, main.url)]
            IN  w.call < log.checks /\ Fresh(w) => s \notin log.asked

\* the response a lookup got was a success: no transport error, a 2xx
\* status code, a body that was read and, where the lookup decodes it, parsed
Success(res, s) ==
    /\ res.err = ""
    /\ res.code \in 200..299
    /\ ~ReadFails(res)
    /\ \/ s = "update"
       \/ s = "version" /\ res.body.k = "obj"
       \/ s = "irc" /\ res.body.k \in {"arr", "obj"}

\* C12: within a call the cache changes only by a write of a checker, and a
\* checker writes only after the upstream call for that signal succeeded.
C12_WriteOnlyOnSuccess ==
    [][log'.checks = log.checks
          => /\ cache' # cache => log'.cwrites # log.cwrites
             /\ log'.cwrites # log.cwrites
                   => IF task'.ver # task.ver THEN Success(req.ver.res, "version")
                      ELSE IF task'.upd # task.upd THEN Success(req.upd.res, "update")
                      ELSE IF main.variant = "prowlarr"
                      THEN Success(req.main.res, "version")
                      ELSE Success(req.main.res, "irc")]_vars

\* the enabled and unhealthy entries of a list, in order
EnabledUnhealthy(list) == SelectSeq(list, LAMBDA e : ~e.healthy /\ e.enabled)

\* C13: a step in which the store refuses a cache write hands on what the
\* response alone determines: the version, update flag or IRC list of the
\* response and no error, and for the IRC status the result of CheckHealth.
C13_CacheWriteFailureSwallowed ==
    [][log'.checks = log.checks /\ log'.wfail # log.wfail
          => LET s == CHOOSE x \in log'.wfail : x \notin log.wfail
             IN  /\ (s = "version" /\ main.variant \in {"autobrr", "maintainerr"})
                       => /\ ~task'.ver.failed
                          /\ chan'.version =
                                Append(chan.version, req.ver.res.body.items[1].version)
                          /\ chan'.err = chan.err
                          /\ result' = result
                 /\ (s = "version" /\ main.variant = "prowlarr")
                       => /\ main'.versionErr = ""
                          /\ main'.version = req.main.res.body.items[1].version
                 /\ s = "update"
                       => /\ ~task'.upd.failed
                          /\ chan'.update = Append(chan.update, req.upd.res.code = 200)
                          /\ result' = result
                 /\ s = "irc"
                       => LET bad == EnabledUnhealthy(IrcList(req.main.res.body.items))
                          IN  /\ main'.ircErr = ""
                              /\ result'.extras.irc = bad
                              /\ result'.status =
                                    IF bad = <<>> THEN "online" ELSE "warning"]_vars

\* the store refused the version and the update flag, and the check came out
\* online with the version it fetched
C13_Witness ==
    /\ Done /\ main.variant = "autobrr"
    /\ {"version", "update"} \subseteq log.wfail
    /\ result.status = "online"
    /\ result.extras.version = "v1" /\ result.extras.updateAvailable
    /\ cache[VersionKey(main.url)].val = EmptyVal

\* C14: a read returns the value of the last accepted write, unchanged,
\* while its TTL has not elapsed, and reports the key absent once the TTL
\* has elapsed or when nothing was written.
C14_CacheRoundTrip ==
    /\ ShortCalls
    /\ \A k \in Keys :
           LET w == log.wr[k]
           IN  /\ Fresh(w) => GetVersionFromCache(k) = w.val
               /\ Expired(w) => GetVersionFromCache(k) = EmptyVal
               /\ w.ttl = 0 => GetVersionFromCache(k) = EmptyVal

\* a call made after the TTL of the IRC status but within that of the
\* version: the version came from the cache and the IRC status, still held
\* by the store, was fetched again
C14_Witness ==
    /\ main.variant = "autobrr" /\ main.pc = "irc"
    /\ log.gap = IrcTTL
    /\ task.ver.hit /\ main.version = "v1"
    /\ Expired(log.wr[IrcKey(main.url)])
    /\ cache[IrcKey(main.url)].val # EmptyVal
    /\ "irc" \in log.asked

----------------------------------------------------------------------------
(* Properties of the IRC status, the response time and the update flag.    *)

\* GetIRCStatus got a response with status 200 whose body was read
IrcAnswered ==
    /\ Done /\ main.variant = "autobrr" /\ main.ircFrom = "net"
    /\ main.ircRes.err = "" /\ main.ircRes.code = 200 /\ ~ReadFails(main.ircRes)

\* C15: on a 200 response GetIRCStatus returns the enabled and unhealthy
\* entries in upstream order, of the array or of the single object taken as
\* a one-element list, and a decode error only when the body is neither.
C15_IrcLenientDecoding ==
    IrcAnswered
        => IF main.ircRes.body.k \in {"arr", "obj"}
           THEN /\ main.ircErr = ""
                /\ result.extras.irc = EnabledUnhealthy(IrcList(main.ircRes.body.items))
           ELSE main.ircErr = "failed to decode response"

\* an array of a healthy and an unhealthy enabled entry gave the one entry
C15_Witness ==
    /\ IrcAnswered
    /\ main.ircRes.body = ArrBody(<<IrcGood, IrcBad>>)
    /\ result.extras.irc = <<IrcStatus(IrcBad)>>

\* the IRC entries a successful fetch had to report: from the response, or
\* from the cache entry that answered
IrcReported ==
    IF main.ircFrom = "net"
    THEN EnabledUnhealthy(IrcList(main.ircRes.body.items))
    ELSE EnabledUnhealthy(IrcList(cache[IrcKey(main.url)].val.items))

\* C16: with an accepted probe and a successful IRC fetch, autobrr is
\* warning with details holding exactly the enabled and unhealthy entries
\* when there is one, and online without details when there is none.
C16_IrcDecidesStatus ==
    (Done /\ main.variant = "autobrr" /\ ProbeAccepted
          /\ main.ircFrom # "none" /\ main.ircErr = "")
        => IF IrcReported # <<>>
           THEN /\ result.status = "warning"
                /\ "details" \in result.extras.has
                /\ result.extras.irc = IrcReported
           ELSE /\ result.status = "online"
                /\ "details" \notin result.extras.has

\* a cached list with an unhealthy entry made the second call warning
C16_Witness ==
    /\ Done /\ main.variant = "autobrr" /\ ProbeAccepted
    /\ main.ircFrom = "cache"
    /\ result.status = "warning"
    /\ result.extras.irc = <<IrcStatus(IrcBad)>>

\* C17: the responseTime extra is never negative, and is 0 when the
\* X-Response-Time header is missing or is not a number.
C17_ResponseTimeNonNegative ==
    (Done /\ "responseTime" \in result.extras.has)
        => /\ result.extras.responseTime >= 0
           /\ main.probe.hdr \in {"", "abc"} => result.extras.responseTime = 0

\* C18: CheckUpdate, on a response, reports an update for a 2xx status
\* other than 204, none for 204, and fails for every other status code.
C18_UpdateStatusCodes ==
    [][(task.upd.pc = "req" /\ task'.upd.pc = "done" /\ req.upd.res.err = "")
          => LET code == req.upd.res.code
             IN  /\ code \in 200..299
                    => /\ ~task'.upd.failed
                       /\ chan'.update = Append(chan.update, code # 204)
                 /\ code \notin 200..299 => task'.upd.failed]_vars

----------------------------------------------------------------------------
(* Properties of the generic checker.                                      *)

\* the generic checker got a response and read its body
GeneralAnswered ==
    /\ Done /\ main.variant = "general"
    /\ Probed /\ main.probe.err = "" /\ ~ReadFails(main.probe)

\* the status the words of an upstream stand for, in any case
StatusFor(w) ==
    CASE w \in {"healthy", "Healthy", "HEALTHY", "ok", "OK", "Ok", "oK",
                "online", "Online", "ONLINE"} -> "online"
      [] w \in {"unhealthy", "Unhealthy", "UNHEALTHY", "error", "Error", "ERROR",
                "offline", "Offline", "OFFLINE"} -> "offline"
      [] w \in {"warning", "Warning", "WARNING"} -> "warning"
      [] OTHER -> "unknown"

\* C19: on a JSON body with a status field the generic checker maps the
\* field, whatever its case, onto online, offline, warning or unknown, and
\* the message of the result is the message field of the body.
C19_GeneralJsonMapping ==
    (GeneralAnswered /\ main.probe.body.k = "obj"
                     /\ "status" \in main.probe.body.items[1].has)
        => /\ result.status = StatusFor(main.probe.body.items[1].status)
           /\ result.msg = Text(main.probe.body.items[1].message)

\* {"status":"OK","message":"all good"} with HTTP 200 gave online, "all good"
C19_Witness ==
    /\ GeneralAnswered /\ main.probe.code = 200
    /\ main.probe.body = ObjBody(HealthObj("OK", "all good"))
    /\ result.status = "online" /\ result.msg = Text("all good")

\* t is s without its leading and trailing whitespace
IsTrimOf(t, s) ==
    /\ t = <<>> \/ (Head(t) # "sp" /\ t[Len(t)] # "sp")
    /\ \E i \in 0..Len(s) :
           /\ i + Len(t) <= Len(s)
           /\ t = SubSeq(s, i + 1, i + Len(t))
           /\ \A j \in (1..i) \cup ((i + Len(t) + 1)..Len(s)) : s[j] = "sp"

\* C20: on a body that is not JSON the generic checker is online exactly
\* when the trimmed body is "ok" in any case, and otherwise error with a
\* message that quotes the trimmed body.
C20_GeneralPlainText ==
    (GeneralAnswered /\ main.probe.body.k = "text")
        => /\ result.status \in {"online", "error"}
           /\ result.status = "online"
                  <=> \E w \in {"ok", "OK", "Ok", "oK"} :
                          IsTrimOf(<<w>>, main.probe.body.toks)
           /\ result.status = "error"
                  => /\ result.msg.text = "Unexpected response"
                     /\ IsTrimOf(result.msg.body, main.probe.body.toks)

\* the body OK gave online
C20_Witness ==
    /\ GeneralAnswered
    /\ main.probe.body = TextBody(<<"OK">>)
    /\ result.status = "online"

\* C21: with a URL the generic checker never answers pending, and its
\* GetVersion gives the empty version and no error for every URL and key.
C21_GeneralNeverPending ==
    /\ (main.variant = "general" /\ main.url # <<>>) => result.status # "pending"
    /\ \A u \in Urls, k \in ApiKeys :
           GeneralGetVersion(u, k) = [version |-> "", err |-> ""]

\* a check of a URL that could not be reached ended offline
C21_Witness ==
    /\ Done /\ main.variant = "general" /\ main.url # <<>>
    /\ TransportFailed /\ result.status = "offline"

----------------------------------------------------------------------------
(* Properties of instances that share the cache store.                     *)

\* the lookup of signal s in the running call was answered by the cache
Hit(s) ==
    CASE s = "version" -> task.ver.hit
      [] s = "update" -> task.upd.hit
      [] s = "irc" -> main.ircFrom = "cache"

\* C22: the check of an instance does not depend on what the upstream of
\* another instance does: all it takes from the cache was written by a
\* check of the same instance.
C22_InstancesIndependent ==
    \A s \in Signals :
        Hit(s) => log.wr[KeyOf(s, main.url)].by = main.url

\* C30: the keys composed for two distinct pairs of URL and signal differ,
\* and the entry a lookup finds was written for its own signal.
C30_KeysInjective ==
    /\ \A p, q \in FleetUrls \X Signals :
           p # q => KeyOf(p[2], p[1]) # KeyOf(q[2], q[1])
    /\ \A s \in Signals :
           Hit(s) => log.wr[KeyOf(s, main.url)].sig = s

----------------------------------------------------------------------------
(* Properties of the extras.                                               *)

\* C23: a result returned after the upstream answered the probe has the
\* responseTime extra whatever its status, and the version and
\* updateAvailable extras when the check received them.
C23_ExtrasAlwaysPresent ==
    (Done /\ Probed /\ main.probe.err = "")
        => /\ "responseTime" \in result.extras.has
           /\ main.verWait = "got"
                  => /\ "version" \in result.extras.has
                     /\ result.extras.version = main.version
           /\ main.updWait = "got" => "updateAvailable" \in result.extras.has

----------------------------------------------------------------------------
(* Properties of the shutdown.                                             *)

\* C24: once a signal has asked the process to stop, it ends with exactly
\* one call of the cache store's Close, and an error of Close does not keep
\* the rest of the shutdown from running.
C24_CloseExactlyOnce ==
    (srv.pc = "exited" /\ srv.quit)
        => /\ srv.closed = 1
           /\ srv.closeErr => (srv.exit = 0 /\ srv.dbClosed = 1)

\* C25: the process does not go away under an autobrr check, whose requests
\* all have deadlines of at most 15 seconds, that was in flight when the
\* shutdown was requested: the CheckHealth call has returned by the time
\* the process exits.
C25_InFlightChecksFinish ==
    (srv.pc = "exited" /\ srv.quit /\ main.variant = "autobrr")
        => "main" \notin srv.cut

----------------------------------------------------------------------------
(* Properties of the store of service configurations and users.            *)

\* C26: the service table behaves as a map keyed by instance ID:
\* GetServiceByInstanceID hands out the record last written for an ID that
\* was created and not deleted, with the non-zero ID it got at creation, and
\* nil without error for any other ID; GetAllServices hands out exactly the
\* records created and not deleted.
C26_StoreIsMap ==
    LET r == db.ret
    IN  /\ r.op = "CreateService" /\ ~r.err => \A row \in r.rows : row.id # 0
        /\ r.op = "GetServiceByInstanceID" =>
               /\ ~r.err
               /\ IF r.arg \in db.live
                  THEN \E row \in r.rows :
                           /\ r.rows = {row}
                           /\ row.instanceID = r.arg
                           /\ row.displayName = db.last[r.arg]
                           /\ row.id # 0 /\ row.id = db.idOf[r.arg]
                  ELSE r.rows = {}
        /\ r.op = "GetAllServices" =>
               /\ ~r.err
               /\ Cardinality(r.rows) = Cardinality(db.live)
               /\ {<<row.instanceID, row.displayName>> : row \in r.rows}
                      = {<<i, db.last[i]>> : i \in db.live}

\* one service was created and deleted, the other created and updated:
\* GetAllServices hands out the updated record alone
C26_Witness ==
    /\ db.ret.op = "GetAllServices"
    /\ db.idOf["test-service-1"] = 1 /\ "test-service-1" \notin db.live
    /\ db.ret.rows = {[id |-> 2, instanceID |-> "duplicate-service",
                       displayName |-> "Updated Test Service"]}

\* C27: no table holds two rows with the same key, and a CreateService or a
\* CreateUser that was refused has left the earlier record as the only one
\* with its key.
C27_NoDuplicateKeys ==
    /\ \A r1, r2 \in db.services : r1.instanceID = r2.instanceID => r1 = r2
    /\ \A r1, r2 \in db.users :
           (r1.username = r2.username \/ r1.email = r2.email) => r1 = r2
    /\ (db.ret.op = "CreateService" /\ db.ret.err) =>
           \E row \in db.services :
               /\ ServiceRows(db.services, db.ret.arg) = {row}
               /\ row.id = db.idOf[db.ret.arg]
               /\ row.displayName = db.last[db.ret.arg]
    /\ (db.ret.op = "CreateUser" /\ db.ret.err) =>
           \E row \in db.users :
               /\ {r \in db.users : r.username = db.ret.arg} = {row}
               /\ row.id < db.nextUser

\* a second CreateService for duplicate-service was refused
C27_Witness ==
    /\ db.ret = Returned("CreateService", "duplicate-service", TRUE, {})
    /\ \E row \in db.services : db.services = {row}

----------------------------------------------------------------------------
(* Properties of the hand-off between CheckHealth and its goroutines.      *)

\* C28: no send of a goroutine has to wait (every channel holds at most
\* what its buffer takes, whether CheckHealth received, timed out or
\* returned early), and maintainerr's receive on errChan after a version
\* finds the error or the goroutine about to send it.
C28_HandoffNeverBlocks ==
    /\ \A c \in DOMAIN chan : Len(chan[c]) <= ChanCap
    /\ main.pc = "waiterr" => (chan.err # <<>> \/ task.ver.pc = "send")

\* maintainerr returned on a rejected probe and its goroutine has ended
\* after both of its sends
C28_Witness ==
    /\ Done /\ main.variant = "maintainerr" /\ ProbeFailed
    /\ task.ver.pc = "done"
    /\ Len(chan.version) = 1 /\ Len(chan.err) = 1

----------------------------------------------------------------------------
(* Properties of the order of the autobrr check.                           *)

\* the running call has asked the upstream for the IRC status
IrcContacted == "irc" \in log.asked \/ req.main.ep = "irc"

\* the running call has tried to write the IRC status into the cache
IrcWritten ==
    \/ "irc" \in log.wfail
    \/ /\ main.url # <<>>
       /\ LET w == log.wr[IrcKey(main.url)]
          IN  w.ttl # 0 /\ w.call = log.checks /\ w.sig = "irc"

\* C29: autobrr asks for the IRC status only once the liveness probe has
\* returned 200 with an accepted body and both waits, for the version and
\* for the update flag, are over; a check that ends pending, offline or
\* error has made no IRC request and written no IRC cache entry.
C29_IrcOnlyAfterProbe ==
    main.variant = "autobrr" =>
        /\ (IrcContacted \/ IrcWritten)
               => /\ main.probe.err = "" /\ main.probe.code = 200
                  /\ ~ReadFails(main.probe)
                  /\ AutobrrTrimmed(main.probe.body) \in {<<"healthy">>, <<"OK">>}
                  /\ main.verWait # "none" /\ main.updWait # "none"
        /\ (Done /\ result.status \in {"pending", "offline", "error"})
               => ~IrcContacted /\ ~IrcWritten

\* after an accepted probe and two waits that timed out the IRC status was
\* fetched and cached
C29_Witness ==
    /\ Done /\ main.variant = "autobrr"
    /\ main.verWait = "timeout" /\ main.updWait = "timeout"
    /\ IrcContacted /\ IrcWritten /\ main.ircFrom = "net"

----------------------------------------------------------------------------
(* Properties of the credentials.                                          *)

\* C31: what GetVersion, CheckUpdate and GetIRCStatus take from the cache
\* was fetched with the API key of the running call: a call whose key the
\* upstream rejects is never answered with data fetched under another key.
C31_CacheBoundToCredential ==
    \A s \in Signals :
        Hit(s) => log.wr[KeyOf(s, main.url)].key = main.key

----------------------------------------------------------------------------
(* Properties of the cached IRC status.                                    *)

\* C32: a check whose IRC status came from the cache was given the list
\* that the lookup which wrote the entry returned, entry by entry and an
\* empty list as an empty list, and ends with the status of the check that
\* wrote it.
C32_IrcCacheRoundTrip ==
    (Done /\ main.variant = "autobrr" /\ main.ircFrom = "cache")
        => LET w == log.wr[IrcKey(main.url)]
           IN  /\ w.sig = "irc"
               /\ IrcCached(main.url).list = w.ret
               /\ result.status = w.status

\* a later check took a list of unhealthy connections from the cache and
\* ended as a warning
C32_Witness ==
    /\ Done /\ main.variant = "autobrr" /\ main.ircFrom = "cache"
    /\ log.checks > 0
    /\ log.wr[IrcKey(main.url)].ret # <<>>
    /\ result.status = "warning"

----------------------------------------------------------------------------
(* Properties of the liveness body of autobrr.                             *)

\* t is s without its leading and trailing tokens c
IsStripOf(t, s, c) ==
    /\ t = <<>> \/ (Head(t) # c /\ t[Len(t)] # c)
    /\ \E i \in 0..Len(s) :
           /\ i + Len(t) <= Len(s)
           /\ t = SubSeq(s, i + 1, i + Len(t))
           /\ \A j \in (1..i) \cup ((i + Len(t) + 1)..Len(s)) : s[j] = c

\* t is s without the whitespace around it and then without the double
\* quotes around what is left
IsBareOf(t, s) ==
    \E i \in 0..Len(s), n \in 0..Len(s) :
        /\ i + n <= Len(s)
        /\ IsStripOf(SubSeq(s, i + 1, i + n), s, "sp")
        /\ IsStripOf(t, SubSeq(s, i + 1, i + n), "q")

\* the liveness response was read: status 200 and a body
LivenessRead ==
    /\ main.probe.err = "" /\ main.probe.code = 200 /\ ~ReadFails(main.probe)

\* the body of the liveness response is healthy or OK once bare
HealthyBody ==
    \E w \in {"healthy", "OK"} : IsBareOf(<<w>>, BodyText(main.probe.body))

\* C33: autobrr ends online or warning only when the liveness response had
\* status 200 and a body that is healthy or OK, in that very case, once the
\* whitespace and then the double quotes around it are removed; any other
\* body of a 200 response ends as an error whose message holds the body so
\* trimmed.
C33_AutobrrHealthyBodyOnly ==
    (Done /\ main.variant = "autobrr" /\ Probed)
        => /\ result.status \in {"online", "warning"}
                  => LivenessRead /\ HealthyBody
           /\ (LivenessRead /\ ~HealthyBody)
                  => /\ result.status = "error"
                     /\ result.msg.text = "Autobrr reported unhealthy status"
                     /\ IsBareOf(result.msg.body, BodyText(main.probe.body))

\* the body ok, in lower case, ended as an error that quotes it
C33_Witness ==
    /\ Done /\ main.variant = "autobrr" /\ LivenessRead
    /\ main.probe.body = TextBody(<<"ok">>)
    /\ result.status = "error" /\ result.msg.body = <<"ok">>

----------------------------------------------------------------------------
(* Properties of the HTTP status handed to the caller.                     *)

\* C34: the HTTP status returned beside the result is 200 for autobrr; 200
\* for maintainerr but 400 on an empty URL; for the generic checker 400 on
\* an empty URL, 503 when the request failed, 500 when the body could not
\* be read and otherwise the status code of the upstream, whatever health
\* status was derived.
C34_CallerStatus ==
    Done =>
        CASE main.variant = "autobrr" -> result.http = 200
          [] main.variant = "maintainerr" ->
                 result.http = IF main.url = <<>> THEN 400 ELSE 200
          [] main.variant = "general" ->
                 result.http = IF main.url = <<>> THEN 400
                               ELSE IF main.probe.err # "" THEN 503
                               ELSE IF ReadFails(main.probe) THEN 500
                               ELSE main.probe.code
          [] OTHER -> TRUE

\* the generic checker found an upstream online behind a 500, and handed
\* the 500 on
C34_Witness ==
    /\ Done /\ main.variant = "general" /\ main.url # <<>>
    /\ main.probe.err = "" /\ main.probe.code = 500
    /\ result.status = "online" /\ result.http = 500

----------------------------------------------------------------------------
(* Properties of GetCollections.                                           *)

\* GetCollections has returned
Collected == main.variant = "collections" /\ Done
\* it returned after reading a 200 response
CollectedBody ==
    /\ Collected /\ main.url # <<>> /\ main.key # ""
    /\ main.probe.err = "" /\ main.probe.code = 200 /\ ~ReadFails(main.probe)
\* the body is a JSON array of objects, a single JSON object
IsArrayOfObjects(b) == b.k = "arr" /\ \A i \in 1..Len(b.items) : b.items[i].obj
IsObject(b) == b.k = "obj"
\* the objects of the body, a single object counting as a list of one
Listed(b) == IF b.k \in {"arr", "obj"} THEN b.items ELSE <<>>
\* list is the active objects among items, in their order
IsActiveOf(list, items) ==
    LET idx == {i \in 1..Len(items) : "isActive" \in items[i].has /\ items[i].isActive}
    IN  /\ Len(list) = Cardinality(idx)
        /\ \A n \in 1..Len(list) :
               \E i \in idx :
                   /\ Cardinality({j \in idx : j <= i}) = n
                   /\ list[n].id = items[i].id /\ list[n].isActive

\* C35: with a URL, an API key and a 200 response, GetCollections takes the
\* body as an array, or failing that as one object standing for a list of
\* one, and returns the active collections of it in order, as a list that
\* is not nil even when empty; it reports a parse error only when the body
\* is neither; without a URL or an API key it returns an error and makes no
\* request.
C35_GetCollections ==
    /\ (Collected /\ (main.url = <<>> \/ main.key = ""))
           => result.err # "" /\ result.nil /\ log.net = 0
    /\ CollectedBody
           => LET b == main.probe.body
              IN  /\ (IsArrayOfObjects(b) \/ IsObject(b))
                         => /\ result.err = "" /\ ~result.nil
                            /\ IsActiveOf(result.list, Listed(b))
                  /\ result.err = "failed to parse response"
                         => ~IsArrayOfObjects(b) /\ ~IsObject(b)
                  /\ result.err \in {"", "failed to parse response"}

\* an array of three collections came back as its two active ones
C35_Witness ==
    /\ CollectedBody
    /\ Len(main.probe.body.items) = 3
    /\ Len(result.list) = 2 /\ result.list[1].id = 1 /\ result.list[2].id = 3

----------------------------------------------------------------------------
(* Properties of the configuration.                                        *)

Loaded == conf.pc = "loaded"
\* the variables a postgres database needs
PostgresVars ==
    {"DASHBRR__DB_HOST", "DASHBRR__DB_PORT", "DASHBRR__DB_USER",
     "DASHBRR__DB_PASSWORD", "DASHBRR__DB_NAME"}
\* the environment names everything that is required
EnvComplete ==
    /\ conf.env.DASHBRR__LISTEN_ADDR # ""
    /\ \/ conf.env.DASHBRR__DB_TYPE = "sqlite" /\ conf.env.DASHBRR__DB_PATH # ""
       \/ /\ conf.env.DASHBRR__DB_TYPE = "postgres"
          /\ \A v \in PostgresVars : conf.env[v] # ""

\* C36: HasRequiredEnvVars is true exactly when the listen address is set
\* and either the DB type is sqlite with a path, or it is postgres with
\* host, port, user, password and name all set; any other DB type gives
\* false.
C36_HasRequiredEnvVars ==
    Loaded => /\ conf.required <=> EnvComplete
              /\ conf.env.DASHBRR__DB_TYPE \notin {"sqlite", "postgres"}
                     => ~conf.required

\* a postgres environment with all five variables was found complete
C36_Witness ==
    /\ Loaded /\ conf.required
    /\ conf.env.DASHBRR__DB_TYPE = "postgres" /\ conf.env.DASHBRR__DB_PATH = ""

\* strconv.Itoa, for the ports that occur
Itoa(n) ==
    CASE n = 0 -> "0"
      [] n = 5432 -> "5432"
      [] n = 5433 -> "5433"
      [] n = 6379 -> "6379"
      [] n = 6380 -> "6380"

\* the fields of a configuration as text, each under the name of the
\* environment variable that overrides it
Shown(config) ==
    [DASHBRR__LISTEN_ADDR |-> config.Server.ListenAddr,
     CACHE_TYPE |-> config.Cache.Type,
     REDIS_HOST |-> config.Cache.Redis.Host,
     REDIS_PORT |-> Itoa(config.Cache.Redis.Port),
     DASHBRR__DB_TYPE |-> config.Database.Type,
     DASHBRR__DB_PATH |-> config.Database.Path,
     DASHBRR__DB_HOST |-> config.Database.Host,
     DASHBRR__DB_PORT |-> Itoa(config.Database.Port),
     DASHBRR__DB_USER |-> config.Database.User,
     DASHBRR__DB_PASSWORD |-> config.Database.Password,
     DASHBRR__DB_NAME |-> config.Database.Name,
     OIDC_ISSUER |-> config.Auth.OIDC.Issuer,
     OIDC_CLIENT_ID |-> config.Auth.OIDC.ClientID,
     OIDC_CLIENT_SECRET |-> config.Auth.OIDC.ClientSecret,
     OIDC_REDIRECT_URL |-> config.Auth.OIDC.RedirectURL]

\* config is base with every variable that is set written over its field
IsOverrideOf(config, base) ==
    \A n \in DOMAIN conf.env :
        Shown(config)[n] = IF conf.env[n] # "" THEN conf.env[n] ELSE Shown(base)[n]

\* C37: with every required variable set LoadConfig returns the
\* configuration of the environment alone and does not read the file;
\* otherwise a file that cannot be read or decoded gives an error and no
\* configuration, and a good file gives its values with every variable
\* that is set written over its own field and nothing else changed.
C37_LoadConfig ==
    Loaded =>
        IF EnvComplete
        THEN /\ conf.out.err = "" /\ ~conf.out.nil /\ ~conf.out.read
             /\ IsOverrideOf(conf.out.config, ZeroConfig)
        ELSE IF conf.file # "full"
        THEN conf.out.err # "" /\ conf.out.nil
        ELSE /\ conf.out.err = "" /\ ~conf.out.nil
             /\ IsOverrideOf(conf.out.config, FileConfig)

\* C38: when HasRequiredEnvVars is true the configuration made from the
\* environment has a listen address and a DB type, with postgres a port
\* that is not zero and a host, user, password and name, with sqlite a
\* path.
C38_RequiredFieldsPopulated ==
    (Loaded /\ conf.required)
        => LET d == conf.out.config.Database
           IN  /\ ~conf.out.nil
               /\ conf.out.config.Server.ListenAddr # "" /\ d.Type # ""
               /\ d.Type = "postgres"
                      => /\ d.Port # 0
                         /\ d.Host # "" /\ d.User # "" /\ d.Password # ""
                         /\ d.Name # ""
               /\ d.Type = "sqlite" => d.Path # ""

----------------------------------------------------------------------------
(* Properties of the order of the shutdown.                                *)

\* the server can serve a request: it accepts one or is serving one
CanServe == Accepting \/ InFlight

\* C39: the cache store is closed only after srv.Shutdown has returned,
\* the database only after the cache store, and neither while the server
\* can still serve a request.
C39_ShutdownOrder ==
    /\ srv.closed > 0 => srv.quit /\ srv.pc \in {"returning", "exited"}
    /\ srv.dbClosed > 0 => srv.closed > 0
    /\ (srv.closed > 0 \/ srv.dbClosed > 0) => ~CanServe

\* the cache store is closed, the database is still open, and a goroutine
\* of the last check is still running
C39_Witness ==
    /\ srv.pc = "returning" /\ srv.closed = 1 /\ srv.dbClosed = 0
    /\ Running # {}

====
